---- MODULE Spec2Model ----
(***************************************************************************)
(* Session continuity and command construction of the claude MCP server:   *)
(* ClaudeToolHandler.execute (src/src/tools/handlers.ts) over the          *)
(* in-memory session storage.  Every handler call is an async function:    *)
(* its code runs atomically between two awaits, and calls interleave at    *)
(* the awaits (the progress notification and the subprocess invocation).   *)
(*                                                                         *)
(* Text is modelled by TLA+ strings; the JavaScript value undefined by the *)
(* string `undefined` below; an absent maxTurns by 0 (the schema admits    *)
(* positive integers only).  Wall-clock fields (createdAt, lastAccessedAt, *)
(* timestamp) are not represented.                                         *)
(***************************************************************************)
EXTENDS Integers, Sequences, FiniteSets, TLC

VARIABLES
    sessionStorage, \* the store: session id -> [turns, claudeSessionId]
    processEnv,     \* process.env, the variables the handler reads
    pc,             \* per call: where the async function stands
    req,            \* per call: the parsed arguments (ClaudeToolArgs), while
                    \* the call is in flight
    useResume,      \* per call: the local useResume
    cmdArgs,        \* per call: the argument list built for the CLI
    progressSent,   \* per call: the progress notifications it has issued
                    \* through context.sendProgress
    invocation,     \* per call: the call of the command executor it awaits
    context,        \* per call: the handler context, as read when the executor
                    \* is chosen
    delivered,      \* per call: the output chunks the streaming executor has
                    \* handed to onProgress, in arrival order
    unhandledRejections, \* the rejected promises of the progress sink that
                    \* nothing awaits or catches
    emitted,        \* the call that ended last: its locals and its outcome
    resetSince,     \* history: the calls in flight whose session was reset
                    \* by a call that began after them
    staleHandle,    \* history: the sessions whose stored handle was
                    \* installed by a call of resetSince
    resetCleared,   \* history: the calls whose reset cleared a session that
                    \* held turns and a native handle
    returnedSince   \* history: per session, the number of calls on it that
                    \* returned since it was last reset

vars == <<sessionStorage, processEnv, pc, req, useResume, cmdArgs, progressSent,
          invocation, context, delivered, unhandledRejections, emitted,
          resetSince, staleHandle, resetCleared, returnedSince>>

----------------------------------------------------------------------------
(* Bounds and value sets *)

MaxCalls == 3

Calls == 1..MaxCalls

undefined == "<undefined>"

SessionIds == {"s1"}

Prompts == {"p1"}

NativeIds == {"h1", "h2"}

\* context.progressToken (ProgressToken = string | number), or none as in the
\* default context.
NoToken == [kind |-> "absent", text |-> "", number |-> 0]

StringToken(s) == [kind |-> "string", text |-> s, number |-> 0]

NumberToken(n) == [kind |-> "number", text |-> "", number |-> n]

\* !!context.progressToken
TruthyToken(t) ==
    \/ t.kind = "string" /\ t.text # ""
    \/ t.kind = "number" /\ t.number # 0

ProgressTokens == {NoToken, StringToken("tok1")}

\* ToolHandlerContext, by its progressToken (sendProgress is the sink, whose
\* outcomes the actions draw).
Context(progressToken) == [progressToken |-> progressToken]

defaultContext == Context(NoToken)

Min(a, b) == IF a < b THEN a ELSE b

Max(a, b) == IF a > b THEN a ELSE b

\* JavaScript truthiness of a string-or-undefined value.
Truthy(v) == v # undefined /\ v # ""

----------------------------------------------------------------------------
(* Program constants *)

DEFAULT_CLAUDE_MODEL == "claude-sonnet-4-6"

TOOLS_CLAUDE == "claude"

NoOutputPlaceholder == "No output from Claude"

RecentTurns == 2

CodeContextCap == 200

ContextCap == 100

----------------------------------------------------------------------------
(* Session storage (src/session/storage.ts is not part of the sources; the   *)
(* operations follow the storage contract of the specification, 4.1).       *)

EmptySession == [turns |-> <<>>, claudeSessionId |-> undefined]

ensureSession(st, id) ==
    IF id \in DOMAIN st THEN st
    ELSE [k \in (DOMAIN st) \cup {id} |-> IF k = id THEN EmptySession ELSE st[k]]

\* Mutant: the reset clears the turns and keeps the native handle.
resetSession_KeepsHandle(st, id) ==
    IF id \in DOMAIN st THEN [st EXCEPT ![id].turns = << >>] ELSE st

resetSession(st, id) ==
    IF id \in DOMAIN st THEN [st EXCEPT ![id] = EmptySession] ELSE st

getClaudeSessionId(st, id) ==
    IF id \in DOMAIN st THEN st[id].claudeSessionId ELSE undefined

setClaudeSessionId(st, id, handle) ==
    IF id \in DOMAIN st THEN [st EXCEPT ![id].claudeSessionId = handle] ELSE st

\* getSession(id).turns; <<>> stands for an absent session too (the handler
\* treats both alike).
getSessionTurns(st, id) ==
    IF id \in DOMAIN st THEN st[id].turns ELSE <<>>

addTurn(st, id, turn) ==
    LET s1 == ensureSession(st, id)
    IN  [s1 EXCEPT ![id].turns = Append(@, turn)]

----------------------------------------------------------------------------
(* Strings *)

\* String.prototype.includes
includes(s, sub) ==
    \E i \in 1..(Len(s) - Len(sub) + 1) : SubSeq(s, i, i + Len(sub) - 1) = sub

\* String.prototype.slice(0, n)
slice0(s, n) == SubSeq(s, 1, Min(n, Len(s)))

RECURSIVE join(_, _)
\* Array.prototype.join
join(lines, sep) ==
    IF Len(lines) = 0 THEN ""
    ELSE IF Len(lines) = 1 THEN lines[1]
    ELSE lines[1] \o sep \o join(Tail(lines), sep)

----------------------------------------------------------------------------
(* Context synthesis *)

contextLine(turn) ==
    IF includes(turn.response, "function") \/ includes(turn.response, "def ")
    THEN "Previous code context: " \o slice0(turn.response, CodeContextCap) \o "..."
    ELSE "Context: " \o turn.prompt \o " -> " \o slice0(turn.response, ContextCap) \o "..."

\* Mutant: the context is built from every turn of the session.
buildEnhancedPrompt_AllTurns(turns, newPrompt) ==
    IF Len(turns) = 0 THEN newPrompt
    ELSE LET contextualInfo ==
                 join([i \in 1..Len(turns) |-> contextLine(turns[i])], "\n")
         IN  contextualInfo \o "\n\nTask: " \o newPrompt

\* Mutant: the context is followed by the blank line and the prompt, without
\* the "Task: " marker.
buildEnhancedPrompt_NoTaskMarker(turns, newPrompt) ==
    IF Len(turns) = 0 THEN newPrompt
    ELSE LET recentTurns == SubSeq(turns, Max(1, Len(turns) - RecentTurns + 1), Len(turns))
             contextualInfo ==
                 join([i \in 1..Len(recentTurns) |-> contextLine(recentTurns[i])], "\n")
         IN  contextualInfo \o "\n\n" \o newPrompt

buildEnhancedPrompt(turns, newPrompt) ==
    IF Len(turns) = 0 THEN newPrompt
    ELSE LET recentTurns == SubSeq(turns, Max(1, Len(turns) - RecentTurns + 1), Len(turns))
             contextualInfo ==
                 join([i \in 1..Len(recentTurns) |-> contextLine(recentTurns[i])], "\n")
         IN  contextualInfo \o "\n\nTask: " \o newPrompt

----------------------------------------------------------------------------
(* Requests (ClaudeToolArgs after ClaudeToolSchema.parse) *)

Request(p, sid, reset) ==
    [prompt |-> p, sessionId |-> sid, resetSession |-> reset,
     model |-> undefined, workingDirectory |-> undefined,
     allowedTools |-> undefined, dangerouslySkipPermissions |-> FALSE,
     outputFormat |-> undefined, maxTurns |-> 0, routerBaseUrl |-> undefined,
     fallbackProviders |-> << >>]

NoRequest == Request(undefined, undefined, FALSE)

\* The requests of the concurrent specification: a prompt, an optional
\* session id and the reset flag; every other optional field absent.
SessionRequests ==
    {Request(p, sid, reset) :
        p \in Prompts, sid \in SessionIds \cup {undefined}, reset \in BOOLEAN}

----------------------------------------------------------------------------
(* Session preparation: the synchronous block before the first await *)

\* Mutant: the reset flag is ignored.
PrepareSession_NoReset(st, r) ==
    IF Truthy(r.sessionId)
    THEN LET ensured == ensureSession(st, r.sessionId)
             claudeSessionId == getClaudeSessionId(ensured, r.sessionId)
             turns == getSessionTurns(ensured, r.sessionId)
         IN  [store |-> ensured,
              claudeSessionId |-> claudeSessionId,
              useResume |-> Truthy(claudeSessionId),
              enhancedPrompt |->
                  IF ~Truthy(claudeSessionId) /\ Len(turns) > 0
                  THEN buildEnhancedPrompt(turns, r.prompt)
                  ELSE r.prompt]
    ELSE [store |-> st, claudeSessionId |-> undefined, useResume |-> FALSE,
          enhancedPrompt |-> r.prompt]

\* Mutant: the native handle is looked up before the reset is applied.
PrepareSession_LookupBeforeReset(st, r) ==
    IF Truthy(r.sessionId)
    THEN LET ensured == ensureSession(st, r.sessionId)
             afterReset == IF r.resetSession
                           THEN resetSession(ensured, r.sessionId)
                           ELSE ensured
             claudeSessionId == getClaudeSessionId(ensured, r.sessionId)
             turns == getSessionTurns(afterReset, r.sessionId)
         IN  [store |-> afterReset,
              claudeSessionId |-> claudeSessionId,
              useResume |-> Truthy(claudeSessionId),
              enhancedPrompt |->
                  IF ~Truthy(claudeSessionId) /\ Len(turns) > 0
                  THEN buildEnhancedPrompt(turns, r.prompt)
                  ELSE r.prompt]
    ELSE [store |-> st, claudeSessionId |-> undefined, useResume |-> FALSE,
          enhancedPrompt |-> r.prompt]

\* The store after ensure/reset, the handle looked up, the mode and the
\* prompt to send.
PrepareSession(st, r) ==
    IF Truthy(r.sessionId)
    THEN LET ensured == ensureSession(st, r.sessionId)
             afterReset == IF r.resetSession
                           THEN resetSession(ensured, r.sessionId)
                           ELSE ensured
             claudeSessionId == getClaudeSessionId(afterReset, r.sessionId)
             turns == getSessionTurns(afterReset, r.sessionId)
         IN  [store |-> afterReset,
              claudeSessionId |-> claudeSessionId,
              useResume |-> Truthy(claudeSessionId),
              enhancedPrompt |->
                  IF ~Truthy(claudeSessionId) /\ Len(turns) > 0
                  THEN buildEnhancedPrompt(turns, r.prompt)
                  ELSE r.prompt]
    ELSE [store |-> st, claudeSessionId |-> undefined, useResume |-> FALSE,
          enhancedPrompt |-> r.prompt]

----------------------------------------------------------------------------
(* Command construction *)

\* Mutant: the environment default wins over the request's model.
selectedModel_EnvFirst(r, env) ==
    IF Truthy(env.CLAUDE_DEFAULT_MODEL) THEN env.CLAUDE_DEFAULT_MODEL
    ELSE IF Truthy(r.model) THEN r.model
    ELSE DEFAULT_CLAUDE_MODEL

selectedModel(r, env) ==
    IF Truthy(r.model) THEN r.model
    ELSE IF Truthy(env.CLAUDE_DEFAULT_MODEL) THEN env.CLAUDE_DEFAULT_MODEL
    ELSE DEFAULT_CLAUDE_MODEL

\* Mutant: no default output format.
outputFormatArgs_NoDefault(r) ==
    IF Truthy(r.outputFormat) THEN <<"--output-format", r.outputFormat>> ELSE << >>

outputFormatArgs(r) ==
    IF Truthy(r.outputFormat) THEN <<"--output-format", r.outputFormat>>
    ELSE <<"--output-format", "json">>

cwdArgs(r) ==
    IF Truthy(r.workingDirectory) THEN <<"--cwd", r.workingDirectory>> ELSE <<>>

\* Mutant: resume mode passes no --model.
buildCmdArgs_ResumeOmitsModel(r, enhancedPrompt, resume, claudeSessionId, model) ==
    IF resume /\ Truthy(claudeSessionId)
    THEN <<"-p", enhancedPrompt, "--resume", claudeSessionId>>
         \o outputFormatArgs(r) \o cwdArgs(r)
    ELSE <<"-p", enhancedPrompt, "--model", model>>
         \o outputFormatArgs(r)
         \o (IF r.maxTurns # 0 THEN <<"--max-turns", ToString(r.maxTurns)>> ELSE <<>>)
         \o (IF r.dangerouslySkipPermissions
             THEN <<"--dangerously-skip-permissions">> ELSE <<>>)
         \o (IF Truthy(r.allowedTools) THEN <<"--allowedTools", r.allowedTools>> ELSE <<>>)
         \o cwdArgs(r)

\* Mutant: fresh mode puts the allowlist before the permission bypass.
buildCmdArgs_AllowlistBeforeBypass(r, enhancedPrompt, resume, claudeSessionId, model) ==
    IF resume /\ Truthy(claudeSessionId)
    THEN <<"-p", enhancedPrompt, "--resume", claudeSessionId, "--model", model>>
         \o outputFormatArgs(r) \o cwdArgs(r)
    ELSE <<"-p", enhancedPrompt, "--model", model>>
         \o outputFormatArgs(r)
         \o (IF r.maxTurns # 0 THEN <<"--max-turns", ToString(r.maxTurns)>> ELSE <<>>)
         \o (IF Truthy(r.allowedTools) THEN <<"--allowedTools", r.allowedTools>> ELSE <<>>)
         \o (IF r.dangerouslySkipPermissions
             THEN <<"--dangerously-skip-permissions">> ELSE <<>>)
         \o cwdArgs(r)

\* Mutant: resume mode passes --max-turns like fresh mode.
buildCmdArgs_ResumeKeepsMaxTurns(r, enhancedPrompt, resume, claudeSessionId, model) ==
    IF resume /\ Truthy(claudeSessionId)
    THEN <<"-p", enhancedPrompt, "--resume", claudeSessionId, "--model", model>>
         \o outputFormatArgs(r)
         \o (IF r.maxTurns # 0 THEN <<"--max-turns", ToString(r.maxTurns)>> ELSE <<>>)
         \o cwdArgs(r)
    ELSE <<"-p", enhancedPrompt, "--model", model>>
         \o outputFormatArgs(r)
         \o (IF r.maxTurns # 0 THEN <<"--max-turns", ToString(r.maxTurns)>> ELSE <<>>)
         \o (IF r.dangerouslySkipPermissions
             THEN <<"--dangerously-skip-permissions">> ELSE <<>>)
         \o (IF Truthy(r.allowedTools) THEN <<"--allowedTools", r.allowedTools>> ELSE <<>>)
         \o cwdArgs(r)

buildCmdArgs(r, enhancedPrompt, resume, claudeSessionId, model) ==
    IF resume /\ Truthy(claudeSessionId)
    THEN <<"-p", enhancedPrompt, "--resume", claudeSessionId, "--model", model>>
         \o outputFormatArgs(r) \o cwdArgs(r)
    ELSE <<"-p", enhancedPrompt, "--model", model>>
         \o outputFormatArgs(r)
         \o (IF r.maxTurns # 0 THEN <<"--max-turns", ToString(r.maxTurns)>> ELSE <<>>)
         \o (IF r.dangerouslySkipPermissions
             THEN <<"--dangerously-skip-permissions">> ELSE <<>>)
         \o (IF Truthy(r.allowedTools) THEN <<"--allowedTools", r.allowedTools>> ELSE <<>>)
         \o cwdArgs(r)

----------------------------------------------------------------------------
(* Subprocess output and its parsing *)

\* The JSON values the CLI is taken to print: objects with optional string
\* fields result and session_id, null, a number and an array (values that are
\* not objects have neither field).
JsonObject(result, session_id) ==
    [type |-> "object", result |-> result, session_id |-> session_id]

JsonNull == [type |-> "null", result |-> undefined, session_id |-> undefined]

JsonNumber == [type |-> "number", result |-> undefined, session_id |-> undefined]

JsonArray == [type |-> "array", result |-> undefined, session_id |-> undefined]

ResultTexts == {"X"}

JsonValues ==
    {JsonObject(r, h) : r \in ResultTexts \cup {"", undefined},
                        h \in NativeIds \cup {"", undefined}}
    \cup {JsonNull, JsonNumber, JsonArray}

jsonField(name, v) == "\"" \o name \o "\":\"" \o v \o "\""

\* JSON.stringify
JSONstringify(v) ==
    IF v.type = "null" THEN "null"
    ELSE IF v.type = "number" THEN "42"
    ELSE IF v.type = "array" THEN "[]"
    ELSE "{"
         \o (IF v.result # undefined THEN jsonField("result", v.result) ELSE "")
         \o (IF v.result # undefined /\ v.session_id # undefined THEN "," ELSE "")
         \o (IF v.session_id # undefined THEN jsonField("session_id", v.session_id) ELSE "")
         \o "}"

\* The JSON texts of the values above.
JsonTexts == {JSONstringify(v) : v \in JsonValues}

JsonValueOf == [text \in JsonTexts |-> CHOOSE v \in JsonValues : JSONstringify(v) = text]

\* JSON.parse: the value whose text this is, or a SyntaxError.
JSONparse(text) ==
    IF text \in JsonTexts
    THEN [ok |-> TRUE, value |-> JsonValueOf[text]]
    ELSE [ok |-> FALSE, value |-> JsonNull]

\* a || b || c on strings
OrElse(a, b) == IF Truthy(a) THEN a ELSE b

\* Mutant: the result field is ignored, the raw stdout is the response.
parseResult_IgnoresResultField(result) ==
    LET parsed == JSONparse(result.stdout)
    IN  IF parsed.ok /\ parsed.value.type # "null"
        THEN [response |-> result.stdout,
              extractedSessionId |-> parsed.value.session_id]
        ELSE [response |-> OrElse(result.stdout, OrElse(result.stderr, NoOutputPlaceholder)),
              extractedSessionId |-> undefined]

\* Mutant: the fallback prefers stderr to stdout.
parseResult_StderrFirst(result) ==
    LET parsed == JSONparse(result.stdout)
    IN  IF parsed.ok /\ parsed.value.type # "null"
        THEN [response |-> IF parsed.value.result # undefined
                           THEN parsed.value.result ELSE result.stdout,
              extractedSessionId |-> parsed.value.session_id]
        ELSE [response |-> OrElse(result.stderr, OrElse(result.stdout, NoOutputPlaceholder)),
              extractedSessionId |-> undefined]

\* Mutant: a missing result field gives the empty text.
parseResult_MissingResultIsEmpty(result) ==
    LET parsed == JSONparse(result.stdout)
    IN  IF parsed.ok /\ parsed.value.type # "null"
        THEN [response |-> IF parsed.value.result # undefined
                           THEN parsed.value.result ELSE "",
              extractedSessionId |-> parsed.value.session_id]
        ELSE [response |-> OrElse(result.stdout, OrElse(result.stderr, NoOutputPlaceholder)),
              extractedSessionId |-> undefined]

\* The try/catch around JSON.parse: the response text and the extracted
\* session id.  Reading a property of null throws inside the try block; a
\* number or an array has neither property.
parseResult(result) ==
    LET parsed == JSONparse(result.stdout)
    IN  IF parsed.ok /\ parsed.value.type # "null"
        THEN [response |-> IF parsed.value.result # undefined
                           THEN parsed.value.result ELSE result.stdout,
              extractedSessionId |-> parsed.value.session_id]
        ELSE [response |-> OrElse(result.stdout, OrElse(result.stderr, NoOutputPlaceholder)),
              extractedSessionId |-> undefined]

CommandResult(stdout, stderr) == [stdout |-> stdout, stderr |-> stderr]

\* The outputs of the concurrent specification: a JSON object with result X
\* and any session_id (absent, empty, h1, h2), or text that is not JSON.
SessionOutputs ==
    {CommandResult(JSONstringify(JsonObject("X", h)), "") :
        h \in NativeIds \cup {"", undefined}}
    \cup {CommandResult("plain", "")}

----------------------------------------------------------------------------
(* Persisting the result: the synchronous block after the invocation *)

\* Mutant: the extracted session id is stored in resume mode too.
persistResult_StoresInResume(st, r, resume, parsed) ==
    LET activeSessionId == r.sessionId
        stored == IF Truthy(activeSessionId) /\ Truthy(parsed.extractedSessionId)
                  THEN setClaudeSessionId(st, activeSessionId, parsed.extractedSessionId)
                  ELSE st
    IN  IF Truthy(activeSessionId)
        THEN addTurn(stored, activeSessionId,
                     [prompt |-> r.prompt, response |-> parsed.response])
        ELSE stored

\* Mutant: the turn is saved in fresh mode only.
persistResult_TurnOnlyWhenFresh(st, r, resume, parsed) ==
    LET activeSessionId == r.sessionId
        stored == IF Truthy(activeSessionId) /\ ~resume
                     /\ Truthy(parsed.extractedSessionId)
                  THEN setClaudeSessionId(st, activeSessionId, parsed.extractedSessionId)
                  ELSE st
    IN  IF Truthy(activeSessionId) /\ ~resume
        THEN addTurn(stored, activeSessionId,
                     [prompt |-> r.prompt, response |-> parsed.response])
        ELSE stored

\* Mutant: the turn replaces the turns of the session instead of joining them.
persistResult_OverwritesTurns(st, r, resume, parsed) ==
    LET activeSessionId == r.sessionId
        stored == IF Truthy(activeSessionId) /\ ~resume
                     /\ Truthy(parsed.extractedSessionId)
                  THEN setClaudeSessionId(st, activeSessionId, parsed.extractedSessionId)
                  ELSE st
    IN  IF Truthy(activeSessionId)
        THEN [ensureSession(stored, activeSessionId) EXCEPT ![activeSessionId].turns =
                 <<[prompt |-> r.prompt, response |-> parsed.response]>>]
        ELSE stored

\* Mutant: without a caller session id, the session id issued by the CLI is
\* taken as the active session.
persistResult_AdoptsCliSession(st, r, resume, parsed) ==
    LET activeSessionId == IF Truthy(r.sessionId) THEN r.sessionId
                           ELSE parsed.extractedSessionId
        stored == IF Truthy(r.sessionId) /\ ~resume
                     /\ Truthy(parsed.extractedSessionId)
                  THEN setClaudeSessionId(st, r.sessionId, parsed.extractedSessionId)
                  ELSE st
    IN  IF Truthy(activeSessionId)
        THEN addTurn(stored, activeSessionId,
                     [prompt |-> r.prompt, response |-> parsed.response])
        ELSE stored

\* Mutant: the turn records the prompt as it was sent to the CLI.
persistResult_SynthesizedPrompt(st, r, resume, parsed) ==
    LET stored == IF Truthy(r.sessionId) /\ ~resume /\ Truthy(parsed.extractedSessionId)
                  THEN setClaudeSessionId(st, r.sessionId, parsed.extractedSessionId)
                  ELSE st
        turns == getSessionTurns(st, r.sessionId)
    IN  IF Truthy(r.sessionId)
        THEN addTurn(stored, r.sessionId,
                     [prompt |-> IF ~resume /\ Len(turns) > 0
                                 THEN buildEnhancedPrompt(turns, r.prompt)
                                 ELSE r.prompt,
                      response |-> parsed.response])
        ELSE stored

\* Mutant: the result is returned without its turn being added.
persistResult_HandleOnly(st, r, resume, parsed) ==
    IF Truthy(r.sessionId) /\ ~resume /\ Truthy(parsed.extractedSessionId)
    THEN setClaudeSessionId(st, r.sessionId, parsed.extractedSessionId)
    ELSE st

persistResult(st, r, resume, parsed) ==
    LET activeSessionId == r.sessionId
        stored == IF Truthy(activeSessionId) /\ ~resume
                     /\ Truthy(parsed.extractedSessionId)
                  THEN setClaudeSessionId(st, activeSessionId, parsed.extractedSessionId)
                  ELSE st
    IN  IF Truthy(activeSessionId)
        THEN addTurn(stored, activeSessionId,
                     [prompt |-> r.prompt, response |-> parsed.response])
        ELSE stored

NoOutcome == [kind |-> "none"]

Upper == "ABCDEFGHIJKLMNOPQRSTUVWXYZ"

Lower == "abcdefghijklmnopqrstuvwxyz"

RECURSIVE toLowerCase(_)
\* String.prototype.toLowerCase
toLowerCase(s) ==
    IF s = "" THEN ""
    ELSE LET ch == SubSeq(s, 1, 1)
             lc == IF \E i \in 1..Len(Upper) : SubSeq(Upper, i, i) = ch
                   THEN LET i == CHOOSE i \in 1..Len(Upper) : SubSeq(Upper, i, i) = ch
                        IN  SubSeq(Lower, i, i)
                   ELSE ch
         IN  lc \o toLowerCase(SubSeq(s, 2, Len(s)))

\* Mutant: the toggle is compared without lowering its case.
isStructuredContentEnabled_CaseSensitive(env) ==
    /\ Truthy(env.STRUCTURED_CONTENT_ENABLED)
    /\ env.STRUCTURED_CONTENT_ENABLED \in {"1", "true", "yes", "on"}

isStructuredContentEnabled(env) ==
    /\ Truthy(env.STRUCTURED_CONTENT_ENABLED)
    /\ toLowerCase(env.STRUCTURED_CONTENT_ENABLED) \in {"1", "true", "yes", "on"}

\* The metadata object of the claude handler; a key whose value is undefined
\* is absent.
Metadata(model, sessionId) ==
    [model |-> IF Truthy(model) THEN model ELSE undefined,
     sessionId |-> IF Truthy(sessionId) THEN sessionId ELSE undefined]

\* Object.keys(metadata).length
KeyCount(metadata) ==
    (IF metadata.model # undefined THEN 1 ELSE 0)
    + (IF metadata.sessionId # undefined THEN 1 ELSE 0)

\* structuredContent: an object, or undefined (defined |-> FALSE).
StructuredContent(metadata) == [defined |-> TRUE, value |-> metadata]

NoStructuredContent == [defined |-> FALSE, value |-> Metadata(undefined, undefined)]

ToolResult(r, model, response, env) ==
    LET metadata == Metadata(model, r.sessionId)
    IN  [kind |-> "result", text |-> response, meta |-> metadata,
         structuredContent |->
             IF isStructuredContentEnabled(env) /\ KeyCount(metadata) > 0
             THEN StructuredContent(metadata) ELSE NoStructuredContent]

\* A value thrown inside a handler: an Error, a ZodError, or a ValidationError
\* (which carries its tool).
Error(name, message, tool) == [name |-> name, message |-> message, tool |-> tool]

NoCause == Error(undefined, undefined, undefined)

\* What the awaits of a call reject with.
SinkError == Error("Error", "progress sink failed", undefined)

CommandError == Error("Error", "spawn claude ENOENT", undefined)

ZodError(message) == Error("ZodError", message, undefined)

ValidationError(tool, message) ==
    [kind |-> "error", name |-> "ValidationError", tool |-> tool, message |-> message,
     cause |-> NoCause]

ToolExecutionError(tool, message, cause) ==
    [kind |-> "error", name |-> "ToolExecutionError", tool |-> tool, message |-> message,
     cause |-> cause]

\* Mutant: a ZodError is wrapped like any other error.
claudeCatch_WrapsZodError(error) ==
    IF error.name = "ValidationError"
    THEN ValidationError(error.tool, error.message)
    ELSE ToolExecutionError(TOOLS_CLAUDE, "Failed to execute claude command", error)

\* The catch block of the claude handler: what the call throws for an error
\* of its try block.
claudeCatch(error) ==
    IF error.name = "ValidationError"
    THEN ValidationError(error.tool, error.message)
    ELSE IF error.name = "ZodError"
    THEN ValidationError(TOOLS_CLAUDE, error.message)
    ELSE ToolExecutionError(TOOLS_CLAUDE, "Failed to execute claude command", error)

----------------------------------------------------------------------------
(* The call of the command executor *)

\* The environment override: an object { ANTHROPIC_BASE_URL: url }, or
\* undefined (defined |-> FALSE).
EnvOverride(url) == [defined |-> TRUE, ANTHROPIC_BASE_URL |-> url]

NoEnvOverride == [defined |-> FALSE, ANTHROPIC_BASE_URL |-> undefined]

NoInvocation ==
    [fn |-> undefined, command |-> undefined, args |-> << >>,
     envOverride |-> NoEnvOverride, argc |-> 0]

\* routerBaseUrl ? { ANTHROPIC_BASE_URL: routerBaseUrl } : undefined
envOverrideOf(r) ==
    IF Truthy(r.routerBaseUrl) THEN EnvOverride(r.routerBaseUrl) ELSE NoEnvOverride

\* Mutant: the environment override object is built whether or not a router
\* URL was given.
invokeClaude_AlwaysOverrides(r, args, progressToken) ==
    [fn |-> IF TruthyToken(progressToken) THEN "executeCommandStreaming"
            ELSE "executeCommand",
     command |-> "claude", args |-> args,
     envOverride |-> EnvOverride(r.routerBaseUrl), argc |-> 3]

\* Mutant: the streaming executor is called without the environment override.
invokeClaude_StreamingDropsOverride(r, args, progressToken) ==
    LET envOverride == envOverrideOf(r)
    IN  IF TruthyToken(progressToken)
        THEN [fn |-> "executeCommandStreaming", command |-> "claude", args |-> args,
              envOverride |-> NoEnvOverride, argc |-> 3]
        ELSE [fn |-> "executeCommand", command |-> "claude", args |-> args,
              envOverride |-> envOverride,
              argc |-> IF envOverride.defined THEN 3 ELSE 2]

\* The executor call of the claude handler: the streaming executor, with an
\* options object, when the context's progress token is truthy; otherwise
\* executeCommand, with the environment override as a third argument only
\* when there is one.
invokeClaude(r, args, progressToken) ==
    LET envOverride == envOverrideOf(r)
    IN  IF TruthyToken(progressToken)
        THEN [fn |-> "executeCommandStreaming", command |-> "claude", args |-> args,
              envOverride |-> envOverride, argc |-> 3]
        ELSE [fn |-> "executeCommand", command |-> "claude", args |-> args,
              envOverride |-> envOverride,
              argc |-> IF envOverride.defined THEN 3 ELSE 2]

\* A progress notification: sendProgress(message, progress).
Progress(message, progress) == [message |-> message, progress |-> progress]

\* sendProgress(message): no progress value.
NoProgress == -1

\* Mutant: the notification of a chunk is put before those already issued.
onProgress_NewestFirst(sent, message) == <<Progress(message, NoProgress)>> \o sent

\* onProgress: (message) => { context.sendProgress(message); }
onProgress(sent, message) == Append(sent, Progress(message, NoProgress))


----------------------------------------------------------------------------
(* The arguments of a claude call as the caller passes them, and           *)
(* ClaudeToolSchema.parse.  A field that is absent is undefined, maxTurns  *)
(* is << >> when absent and <<n>> when n is given, fallbackProviders is    *)
(* << >> when absent.                                                      *)

Args(p, sid, reset, maxTurns, outputFormat, routerBaseUrl, fallbackProviders) ==
    [prompt |-> p, sessionId |-> sid, resetSession |-> reset,
     model |-> undefined, workingDirectory |-> undefined,
     allowedTools |-> undefined, dangerouslySkipPermissions |-> FALSE,
     outputFormat |-> outputFormat, maxTurns |-> maxTurns,
     routerBaseUrl |-> routerBaseUrl, fallbackProviders |-> fallbackProviders]

NoArgs == Args(undefined, undefined, FALSE, << >>, undefined, undefined, << >>)

\* An entry of fallbackProviders (ProviderSchema).
Provider(routerBaseUrl, model) == [routerBaseUrl |-> routerBaseUrl, model |-> model]

MaxSessionIdLength == 256

MaxFallbackProviders == 5

CharsOf(s) == {SubSeq(s, i, i) : i \in 1..Len(s)}

\* [a-zA-Z0-9_-]
SessionIdChars == CharsOf(Upper) \cup CharsOf(Lower) \cup CharsOf("0123456789_-")

\* /^[a-zA-Z0-9_-]+$/
sessionIdRegex(s) == Len(s) > 0 /\ \A i \in 1..Len(s) : SubSeq(s, i, i) \in SessionIdChars

\* z.string().url(): the string parses as a URL, which takes a scheme of
\* letters followed by a colon.
isUrl(s) ==
    \E i \in 2..Len(s) :
        /\ SubSeq(s, i, i) = ":"
        /\ \A j \in 1..(i - 1) : SubSeq(s, j, j) \in CharsOf(Upper) \cup CharsOf(Lower)

\* The issues of ClaudeToolSchema on args, as "path: code", in schema order.
schemaIssues(args) ==
    (IF args.prompt = undefined THEN <<"prompt: invalid_type">> ELSE << >>)
    \o (IF args.sessionId # undefined /\ Len(args.sessionId) > MaxSessionIdLength
        THEN <<"sessionId: too_big">> ELSE << >>)
    \o (IF args.sessionId # undefined /\ ~sessionIdRegex(args.sessionId)
        THEN <<"sessionId: invalid_format">> ELSE << >>)
    \o (IF args.outputFormat \notin {undefined, "text", "json", "stream-json"}
        THEN <<"outputFormat: invalid_value">> ELSE << >>)
    \o (IF Len(args.maxTurns) > 0 /\ ~(args.maxTurns[1] > 0)
        THEN <<"maxTurns: too_small">> ELSE << >>)
    \o (IF args.routerBaseUrl # undefined /\ ~isUrl(args.routerBaseUrl)
        THEN <<"routerBaseUrl: invalid_format">> ELSE << >>)
    \o (IF Len(args.fallbackProviders) > MaxFallbackProviders
        THEN <<"fallbackProviders: too_big">> ELSE << >>)
    \o (IF \E i \in 1..Len(args.fallbackProviders) :
               /\ args.fallbackProviders[i].routerBaseUrl # undefined
               /\ ~isUrl(args.fallbackProviders[i].routerBaseUrl)
        THEN <<"fallbackProviders: invalid_format">> ELSE << >>)

\* ClaudeToolSchema.parse(args): the parsed request, or the ZodError thrown.
ClaudeToolSchemaParse(args) ==
    LET issues == schemaIssues(args)
    IN  IF Len(issues) = 0
        THEN [ok |-> TRUE,
              value |-> [args EXCEPT !.maxTurns =
                            IF Len(args.maxTurns) = 0 THEN 0 ELSE args.maxTurns[1]],
              error |-> NoCause]
        ELSE [ok |-> FALSE, value |-> NoRequest, error |-> ZodError(join(issues, "; "))]

----------------------------------------------------------------------------
(* The calls.  A call is one run of ClaudeToolHandler.execute; its locals  *)
(* live while it is in flight and are handed to `emitted` when it ends.    *)

InFlight(c) == pc[c] \in {"awaitProgress", "awaitCommand"}

NoResult == CommandResult(undefined, undefined)

Emitted(c, result, out) ==
    [call |-> c, req |-> req[c], useResume |-> useResume[c],
     cmdArgs |-> cmdArgs[c], progressSent |-> progressSent[c],
     invocation |-> invocation[c], context |-> context[c],
     delivered |-> delivered[c], rejectedArgs |-> NoArgs,
     result |-> result, outcome |-> out]

\* execute() up to `await context.sendProgress(...)`.
Begin(c, r) ==
    /\ pc[c] = "idle"
    /\ \A d \in 1..(c - 1) : pc[d] # "idle"
    /\ LET prep == PrepareSession(sessionStorage, r)
       IN  /\ sessionStorage' = prep.store
           /\ useResume' = [useResume EXCEPT ![c] = prep.useResume]
           /\ cmdArgs' = [cmdArgs EXCEPT ![c] =
                  buildCmdArgs(r, prep.enhancedPrompt, prep.useResume,
                               prep.claudeSessionId, selectedModel(r, processEnv))]
    /\ req' = [req EXCEPT ![c] = r]
    /\ pc' = [pc EXCEPT ![c] = "awaitProgress"]
    /\ progressSent' = [progressSent EXCEPT ![c] =
           <<Progress("Starting Claude execution...", 0)>>]
    /\ IF Truthy(r.sessionId) /\ r.resetSession
       THEN /\ resetSince' = resetSince \cup
                   {d \in Calls : InFlight(d) /\ req[d].sessionId = r.sessionId}
            /\ staleHandle' = staleHandle \ {r.sessionId}
            /\ resetCleared' =
                   IF /\ Len(getSessionTurns(sessionStorage, r.sessionId)) > 0
                      /\ Truthy(getClaudeSessionId(sessionStorage, r.sessionId))
                   THEN resetCleared \cup {c} ELSE resetCleared
            /\ returnedSince' = [returnedSince EXCEPT ![r.sessionId] = 0]
       ELSE UNCHANGED <<resetSince, staleHandle, resetCleared, returnedSince>>
    /\ UNCHANGED <<processEnv, invocation, context, delivered, unhandledRejections,
                   emitted>>

\* execute(args, context) from its entry: ClaudeToolSchema.parse(args) throws a
\* ZodError, which the catch block converts, or the handler goes on with the
\* parsed request.  A call rejected here leaves its arguments in
\* emitted.rejectedArgs.
Execute(c, args) ==
    \/ /\ pc[c] = "idle"
       /\ ClaudeToolSchemaParse(args).ok
       /\ Begin(c, ClaudeToolSchemaParse(args).value)
    \/ /\ pc[c] = "idle"
       /\ \A d \in 1..(c - 1) : pc[d] # "idle"
       /\ ~ClaudeToolSchemaParse(args).ok
       /\ pc' = [pc EXCEPT ![c] = "thrown"]
       /\ emitted' = [Emitted(c, NoResult, claudeCatch(ClaudeToolSchemaParse(args).error))
                         EXCEPT !.rejectedArgs = args]
       /\ UNCHANGED <<sessionStorage, processEnv, req, useResume, cmdArgs,
                      progressSent, invocation, context, delivered,
                      unhandledRejections,
                      resetSince, staleHandle, resetCleared, returnedSince>>

\* Mutant: when the executor rejects and the request has fallback providers
\* left, the call invokes the CLI again with the first of them.
ExecuteCommandRejected_Retries(c) ==
    /\ pc[c] = "awaitCommand"
    /\ IF Len(req[c].fallbackProviders) > 0
       THEN LET provider == req[c].fallbackProviders[1]
                next == [req[c] EXCEPT !.routerBaseUrl = provider.routerBaseUrl,
                                       !.fallbackProviders = Tail(@)]
            IN  /\ req' = [req EXCEPT ![c] = next]
                /\ invocation' = [invocation EXCEPT ![c] =
                       [fn |-> "executeCommand", command |-> "claude",
                        args |-> cmdArgs[c],
                        envOverride |->
                            [defined |-> provider.routerBaseUrl # undefined,
                             ANTHROPIC_BASE_URL |-> provider.routerBaseUrl],
                        argc |-> 3]]
                /\ UNCHANGED <<sessionStorage, processEnv, pc, useResume, cmdArgs,
                               progressSent, context, delivered, unhandledRejections,
                               emitted, resetSince, staleHandle, resetCleared,
                               returnedSince>>
       ELSE /\ pc' = [pc EXCEPT ![c] = "thrown"]
            /\ emitted' = Emitted(c, NoResult, claudeCatch(CommandError))
            /\ useResume' = [useResume EXCEPT ![c] = FALSE]
            /\ cmdArgs' = [cmdArgs EXCEPT ![c] = << >>]
            /\ progressSent' = [progressSent EXCEPT ![c] = << >>]
            /\ invocation' = [invocation EXCEPT ![c] = NoInvocation]
            /\ context' = [context EXCEPT ![c] = defaultContext]
            /\ delivered' = [delivered EXCEPT ![c] = << >>]
            /\ req' = [req EXCEPT ![c] = NoRequest]
            /\ resetSince' = resetSince \ {c}
            /\ UNCHANGED <<sessionStorage, processEnv, unhandledRejections,
                           staleHandle, resetCleared, returnedSince>>

\* Mutant: an invocation is issued only while no other call has one pending.
SendProgressResolved_Serialized(c, progressToken) ==
    /\ pc[c] = "awaitProgress"
    /\ \A d \in Calls \ {c} : pc[d] # "awaitCommand"
    /\ pc' = [pc EXCEPT ![c] = "awaitCommand"]
    /\ invocation' = [invocation EXCEPT ![c] =
           invokeClaude(req[c], cmdArgs[c], progressToken)]
    /\ context' = [context EXCEPT ![c] = Context(progressToken)]
    /\ UNCHANGED <<sessionStorage, processEnv, req, useResume, cmdArgs, progressSent,
                   delivered, unhandledRejections,
                   emitted, resetSince, staleHandle, resetCleared, returnedSince>>

\* The initial progress notification is acknowledged; the executor is called,
\* the streaming one when the context carries a progress token.
SendProgressResolved(c, progressToken) ==
    /\ pc[c] = "awaitProgress"
    /\ pc' = [pc EXCEPT ![c] = "awaitCommand"]
    /\ invocation' = [invocation EXCEPT ![c] =
           invokeClaude(req[c], cmdArgs[c], progressToken)]
    /\ UNCHANGED <<sessionStorage, processEnv, req, useResume, cmdArgs, progressSent,
                   delivered, unhandledRejections,
                   emitted, resetSince, staleHandle, resetCleared, returnedSince>>
    /\ context' = [context EXCEPT ![c] = Context(progressToken)]

\* The catch block: any error of the try block that is neither a
\* ValidationError nor a ZodError is wrapped.
Throw(c, error) ==
    /\ pc' = [pc EXCEPT ![c] = "thrown"]
    /\ emitted' = Emitted(c, NoResult, claudeCatch(error))
    /\ useResume' = [useResume EXCEPT ![c] = FALSE]
    /\ cmdArgs' = [cmdArgs EXCEPT ![c] = << >>]
    /\ progressSent' = [progressSent EXCEPT ![c] = << >>]
    /\ invocation' = [invocation EXCEPT ![c] = NoInvocation]
    /\ context' = [context EXCEPT ![c] = defaultContext]
    /\ delivered' = [delivered EXCEPT ![c] = << >>]
    /\ UNCHANGED unhandledRejections
    /\ req' = [req EXCEPT ![c] = NoRequest]
    /\ resetSince' = resetSince \ {c}
    /\ UNCHANGED <<sessionStorage, processEnv, staleHandle, resetCleared,
                   returnedSince>>

\* The progress sink rejects.
\* Mutant: a call whose first notification fails still records its turn.
SendProgressRejected_StoresTurn(c) ==
    /\ pc[c] = "awaitProgress"
    /\ pc' = [pc EXCEPT ![c] = "thrown"]
    /\ emitted' = Emitted(c, NoResult, claudeCatch(SinkError))
    /\ sessionStorage' =
           IF Truthy(req[c].sessionId)
           THEN addTurn(sessionStorage, req[c].sessionId,
                        [prompt |-> req[c].prompt, response |-> ""])
           ELSE sessionStorage
    /\ useResume' = [useResume EXCEPT ![c] = FALSE]
    /\ cmdArgs' = [cmdArgs EXCEPT ![c] = << >>]
    /\ progressSent' = [progressSent EXCEPT ![c] = << >>]
    /\ invocation' = [invocation EXCEPT ![c] = NoInvocation]
    /\ context' = [context EXCEPT ![c] = defaultContext]
    /\ delivered' = [delivered EXCEPT ![c] = << >>]
    /\ req' = [req EXCEPT ![c] = NoRequest]
    /\ resetSince' = resetSince \ {c}
    /\ UNCHANGED <<processEnv, unhandledRejections, staleHandle, resetCleared,
                   returnedSince>>

SendProgressRejected(c) ==
    /\ pc[c] = "awaitProgress"
    /\ Throw(c, SinkError)

\* executeCommand rejects.
ExecuteCommandRejected(c) ==
    /\ pc[c] = "awaitCommand"
    /\ Throw(c, CommandError)

\* executeCommand resolves with result: parse, persist, return.
ExecuteCommandResolved(c, result) ==
    /\ pc[c] = "awaitCommand"
    /\ LET parsed == parseResult(result)
       IN  /\ sessionStorage' = persistResult(sessionStorage, req[c], useResume[c], parsed)
           /\ emitted' = Emitted(c, result,
                  ToolResult(req[c], selectedModel(req[c], processEnv), parsed.response,
                             processEnv))
           /\ staleHandle' =
                  IF Truthy(req[c].sessionId) /\ ~useResume[c]
                     /\ Truthy(parsed.extractedSessionId)
                  THEN IF c \in resetSince
                       THEN staleHandle \cup {req[c].sessionId}
                       ELSE staleHandle \ {req[c].sessionId}
                  ELSE staleHandle
    /\ pc' = [pc EXCEPT ![c] = "returned"]
    /\ useResume' = [useResume EXCEPT ![c] = FALSE]
    /\ cmdArgs' = [cmdArgs EXCEPT ![c] = << >>]
    /\ progressSent' = [progressSent EXCEPT ![c] = << >>]
    /\ invocation' = [invocation EXCEPT ![c] = NoInvocation]
    /\ context' = [context EXCEPT ![c] = defaultContext]
    /\ delivered' = [delivered EXCEPT ![c] = << >>]
    /\ UNCHANGED unhandledRejections
    /\ req' = [req EXCEPT ![c] = NoRequest]
    /\ resetSince' = resetSince \ {c}
    /\ returnedSince' =
           IF Truthy(req[c].sessionId)
           THEN [returnedSince EXCEPT ![req[c].sessionId] = @ + 1]
           ELSE returnedSince
    /\ UNCHANGED <<processEnv, resetCleared>>

----------------------------------------------------------------------------
(* The review handler: one run of ReviewToolHandler.execute.  A call running *)
(* it stands at reviewAwaitProgress or reviewAwaitCommand while in flight.   *)

TOOLS_REVIEW == "review"

NoReviewOutputPlaceholder == "No review output from Claude"

\* ReviewToolArgs after ReviewToolSchema.parse; uncommitted absent is FALSE.
ReviewRequests ==
    [prompt : {undefined, "", "check"}, uncommitted : BOOLEAN,
     base : {undefined, "main"}, commit : {undefined, "abc123"},
     title : {undefined, "T"}, model : {undefined, "claude-opus-4-6"},
     workingDirectory : {undefined, "/repo"}]

\* Mutant: the prompt is not checked against the uncommitted flag.
reviewRejects_Never(r) == FALSE

\* if (prompt && uncommitted) throw new ValidationError(...)
reviewRejects(r) == Truthy(r.prompt) /\ r.uncommitted

reviewContext(r) ==
    (IF r.uncommitted
     THEN <<"Review staged, unstaged, and untracked changes (working tree diff).">>
     ELSE << >>)
    \o (IF Truthy(r.base)
        THEN <<"Review changes against base branch: " \o r.base \o ".">> ELSE << >>)
    \o (IF Truthy(r.commit)
        THEN <<"Review changes introduced by commit: " \o r.commit \o ".">> ELSE << >>)
    \o (IF Truthy(r.title) THEN <<"Review title: " \o r.title \o ".">> ELSE << >>)

reviewPrompt(r) ==
    IF Truthy(r.prompt) THEN join(reviewContext(r), " ") \o " " \o r.prompt
    ELSE IF Len(reviewContext(r)) > 0
    THEN join(reviewContext(r), " ") \o " Please provide a detailed code review."
    ELSE "Please review the current code changes and provide feedback."

\* Mutant: the review is built on a native handle like a resumed call.
buildReviewCmdArgs_Resumes(r, model) ==
    <<"-p", reviewPrompt(r), "--resume", "h1", "--model", model, "--output-format", "json">>
    \o cwdArgs(r)

buildReviewCmdArgs(r, model) ==
    <<"-p", reviewPrompt(r), "--model", model, "--output-format", "json">>
    \o cwdArgs(r)

\* The executor call of the review handler: no environment override.
invokeReview(args, progressToken) ==
    IF TruthyToken(progressToken)
    THEN [fn |-> "executeCommandStreaming", command |-> "claude", args |-> args,
          envOverride |-> NoEnvOverride, argc |-> 3]
    ELSE [fn |-> "executeCommand", command |-> "claude", args |-> args,
          envOverride |-> NoEnvOverride, argc |-> 2]

\* The try/catch around JSON.parse in the review handler.
parseReviewResult(result) ==
    LET parsed == JSONparse(result.stdout)
    IN  IF parsed.ok /\ parsed.value.type # "null"
        THEN IF parsed.value.result # undefined
             THEN parsed.value.result ELSE result.stdout
        ELSE OrElse(result.stdout, OrElse(result.stderr, NoReviewOutputPlaceholder))

\* The metadata object of the review handler: model always, base and commit
\* when truthy.
ReviewMetadata(r, model) ==
    [model |-> model,
     base |-> IF Truthy(r.base) THEN r.base ELSE undefined,
     commit |-> IF Truthy(r.commit) THEN r.commit ELSE undefined]

ReviewResult(r, model, response, env) ==
    LET metadata == ReviewMetadata(r, model)
    IN  [kind |-> "result", text |-> response, meta |-> metadata,
         structuredContent |->
             IF isStructuredContentEnabled(env)
             THEN StructuredContent(metadata) ELSE NoStructuredContent]

ReviewInFlight(c) == pc[c] \in {"reviewAwaitProgress", "reviewAwaitCommand"}

\* execute() up to `await context.sendProgress(...)`, or up to the
\* ValidationError thrown before it.
\* The catch block of the review handler: what the call throws for an error
\* of its try block.
reviewCatch(error) ==
    IF error.name = "ZodError"
    THEN ValidationError(TOOLS_REVIEW, error.message)
    ELSE IF error.name = "ValidationError"
    THEN ValidationError(error.tool, error.message)
    ELSE ToolExecutionError(TOOLS_REVIEW, "Failed to execute claude review", error)

ReviewBegin(c, r) ==
    /\ pc[c] = "idle"
    /\ \A d \in 1..(c - 1) : pc[d] # "idle"
    /\ IF reviewRejects(r)
       THEN /\ pc' = [pc EXCEPT ![c] = "thrown"]
            /\ emitted' =
                   [call |-> c, req |-> r, useResume |-> FALSE, cmdArgs |-> << >>,
                    progressSent |-> progressSent[c], invocation |-> invocation[c],
                    context |-> context[c], delivered |-> delivered[c],
                    rejectedArgs |-> NoArgs, result |-> NoResult,
                    outcome |-> reviewCatch(Error("ValidationError",
                        "The review prompt cannot be combined with uncommitted=true. Use a base/commit review or omit the prompt.",
                        TOOLS_REVIEW))]
            /\ UNCHANGED <<req, cmdArgs, progressSent>>
       ELSE /\ pc' = [pc EXCEPT ![c] = "reviewAwaitProgress"]
            /\ req' = [req EXCEPT ![c] = r]
            /\ cmdArgs' = [cmdArgs EXCEPT ![c] =
                   buildReviewCmdArgs(r, selectedModel(r, processEnv))]
            /\ progressSent' = [progressSent EXCEPT ![c] =
                   <<Progress("Starting code review...", 0)>>]
            /\ UNCHANGED emitted
    /\ UNCHANGED <<sessionStorage, processEnv, useResume, invocation,
                   context, delivered, unhandledRejections,
                   resetSince, staleHandle, resetCleared, returnedSince>>

ReviewSendProgressResolved(c, progressToken) ==
    /\ pc[c] = "reviewAwaitProgress"
    /\ pc' = [pc EXCEPT ![c] = "reviewAwaitCommand"]
    /\ invocation' = [invocation EXCEPT ![c] = invokeReview(cmdArgs[c], progressToken)]
    /\ UNCHANGED <<sessionStorage, processEnv, req, useResume, cmdArgs, progressSent,
                   delivered, unhandledRejections,
                   emitted, resetSince, staleHandle, resetCleared, returnedSince>>
    /\ context' = [context EXCEPT ![c] = Context(progressToken)]

\* The call ends: its locals are gone.
ReviewEnd(c, state, result, out) ==
    /\ pc' = [pc EXCEPT ![c] = state]
    /\ emitted' = Emitted(c, result, out)
    /\ req' = [req EXCEPT ![c] = NoRequest]
    /\ cmdArgs' = [cmdArgs EXCEPT ![c] = << >>]
    /\ progressSent' = [progressSent EXCEPT ![c] = << >>]
    /\ invocation' = [invocation EXCEPT ![c] = NoInvocation]
    /\ context' = [context EXCEPT ![c] = defaultContext]
    /\ delivered' = [delivered EXCEPT ![c] = << >>]
    /\ UNCHANGED unhandledRejections
    /\ UNCHANGED <<sessionStorage, processEnv, useResume,
                   resetSince, staleHandle, resetCleared, returnedSince>>

ReviewThrow(c, error) == ReviewEnd(c, "thrown", NoResult, reviewCatch(error))

ReviewSendProgressRejected(c) ==
    /\ pc[c] = "reviewAwaitProgress"
    /\ ReviewThrow(c, SinkError)

ReviewExecuteCommandRejected(c) ==
    /\ pc[c] = "reviewAwaitCommand"
    /\ ReviewThrow(c, CommandError)

ReviewExecuteCommandResolved(c, result) ==
    /\ pc[c] = "reviewAwaitCommand"
    /\ ReviewEnd(c, "returned", result,
                 ReviewResult(req[c], selectedModel(req[c], processEnv),
                              parseReviewResult(result), processEnv))

\* The bound on the output chunks of one subprocess.
MaxChunks == 2

Chunks == {"a", "b"}

\* The streaming executor hands an output chunk to onProgress while the handler
\* awaits it, before it resolves or rejects.  onProgress calls the sink and
\* drops the promise it returns: when that promise rejects, nothing awaits or
\* catches it.
OnProgress(c, message, sinkRejects) ==
    /\ pc[c] \in {"awaitCommand", "reviewAwaitCommand"}
    /\ invocation[c].fn = "executeCommandStreaming"
    /\ Len(delivered[c]) < MaxChunks
    /\ delivered' = [delivered EXCEPT ![c] = Append(@, message)]
    /\ progressSent' = [progressSent EXCEPT ![c] = onProgress(@, message)]
    /\ unhandledRejections' = unhandledRejections + (IF sinkRejects THEN 1 ELSE 0)
    /\ UNCHANGED <<sessionStorage, processEnv, pc, req, useResume, cmdArgs,
                   invocation, context, emitted,
                   resetSince, staleHandle, resetCleared, returnedSince>>

----------------------------------------------------------------------------
(* The ping, listSessions and help handlers.  The record a call of one of  *)
(* them leaves in `emitted` names its tool.                                *)

TOOLS_PING == "ping"

TOOLS_HELP == "help"

TOOLS_LIST_SESSIONS == "listSessions"

NoHelpPlaceholder == "No help information available"

\* The message argument of ping: absent, a string, or a value that is not a
\* string.
NoMessage == [kind |-> "absent", text |-> ""]

StringMessage(s) == [kind |-> "string", text |-> s]

NumberMessage == [kind |-> "number", text |-> ""]

PingArgs(message) == [message |-> message]

\* Mutant: ping answers 'pong' whatever the message.
pingText_AlwaysPong(args) == "pong"

\* const { message = 'pong' } = PingToolSchema.parse(args); text: message
pingText(args) == IF args.message.kind = "absent" THEN "pong" ELSE args.message.text

\* What a call of ping, listSessions or help leaves when it ends.
ToolEmitted(c, tool, args, result, out) ==
    [call |-> c, tool |-> tool, req |-> args, useResume |-> FALSE,
     cmdArgs |-> cmdArgs[c], progressSent |-> progressSent[c],
     invocation |-> invocation[c], context |-> context[c],
     delivered |-> delivered[c], rejectedArgs |-> NoArgs,
     result |-> result, outcome |-> out]

TextResult(text) == [kind |-> "result", text |-> text]

\* The catch block of ping, listSessions and help.
toolCatch(tool, message, error) ==
    IF error.name = "ZodError"
    THEN ValidationError(tool, error.message)
    ELSE ToolExecutionError(tool, message, error)

\* PingToolHandler.execute: it has no await and ends in the step it begins.
Ping(c, args) ==
    /\ pc[c] = "idle"
    /\ \A d \in 1..(c - 1) : pc[d] # "idle"
    /\ IF args.message.kind = "number"
       THEN /\ pc' = [pc EXCEPT ![c] = "thrown"]
            /\ emitted' = ToolEmitted(c, TOOLS_PING, args, NoResult,
                   toolCatch(TOOLS_PING, "Failed to execute ping command",
                             ZodError("message: invalid_type")))
       ELSE /\ pc' = [pc EXCEPT ![c] = "returned"]
            /\ emitted' = ToolEmitted(c, TOOLS_PING, args, NoResult,
                   TextResult(pingText(args)))
    /\ UNCHANGED <<sessionStorage, processEnv, req, useResume, cmdArgs, progressSent,
                   invocation, context, delivered, unhandledRejections,
                   resetSince, staleHandle, resetCleared, returnedSince>>

\* The time stamps of a session, which the model does not follow.
Timestamp == "<timestamp>"

RECURSIVE listSessions(_)
\* sessionStorage.listSessions(): the sessions of the store, in an order that
\* is fixed within one call.
listSessions(st) ==
    IF DOMAIN st = {} THEN << >>
    ELSE LET id == CHOOSE k \in DOMAIN st : TRUE
             rest == [k \in (DOMAIN st) \ {id} |-> st[k]]
         IN  <<[id |-> id, turns |-> st[id].turns]>> \o listSessions(rest)

\* sessions.map((session) => ({ id, createdAt, lastAccessedAt, turnCount }))
sessionInfoOf(sessions) ==
    [i \in 1..Len(sessions) |->
        [id |-> sessions[i].id, createdAt |-> Timestamp, lastAccessedAt |-> Timestamp,
         turnCount |-> Len(sessions[i].turns)]]

\* JSON.stringify(sessionInfo, null, 2)
stringifySessionInfo(sessionInfo) ==
    "[\n"
    \o join([i \in 1..Len(sessionInfo) |->
               "  {\n    \"id\": \"" \o sessionInfo[i].id
               \o "\",\n    \"createdAt\": \"" \o sessionInfo[i].createdAt
               \o "\",\n    \"lastAccessedAt\": \"" \o sessionInfo[i].lastAccessedAt
               \o "\",\n    \"turnCount\": " \o ToString(sessionInfo[i].turnCount)
               \o "\n  }"], ",\n")
    \o "\n]"

\* ListSessionsToolHandler.execute: it has no await and ends in the step it
\* begins; its schema accepts every arguments object.
ListSessions(c) ==
    /\ pc[c] = "idle"
    /\ \A d \in 1..(c - 1) : pc[d] # "idle"
    /\ pc' = [pc EXCEPT ![c] = "returned"]
    /\ LET sessionInfo == sessionInfoOf(listSessions(sessionStorage))
       IN  emitted' = ToolEmitted(c, TOOLS_LIST_SESSIONS, [none |-> TRUE], NoResult,
               TextResult(IF Len(sessionInfo) > 0
                          THEN stringifySessionInfo(sessionInfo)
                          ELSE "No active sessions"))
    /\ UNCHANGED <<sessionStorage, processEnv, req, useResume, cmdArgs, progressSent,
                   invocation, context, delivered, unhandledRejections,
                   resetSince, staleHandle, resetCleared, returnedSince>>

\* HelpToolHandler.execute up to `await executeCommand('claude', ['--help'])`.
HelpBegin(c) ==
    /\ pc[c] = "idle"
    /\ \A d \in 1..(c - 1) : pc[d] # "idle"
    /\ pc' = [pc EXCEPT ![c] = "helpAwaitCommand"]
    /\ invocation' = [invocation EXCEPT ![c] =
           [fn |-> "executeCommand", command |-> "claude", args |-> <<"--help">>,
            envOverride |-> NoEnvOverride, argc |-> 2]]
    /\ UNCHANGED <<sessionStorage, processEnv, req, useResume, cmdArgs, progressSent,
                   context, delivered, unhandledRejections, emitted,
                   resetSince, staleHandle, resetCleared, returnedSince>>

\* The help call ends: its locals are gone.
HelpEnd(c, state, result, out) ==
    /\ pc[c] = "helpAwaitCommand"
    /\ pc' = [pc EXCEPT ![c] = state]
    /\ emitted' = ToolEmitted(c, TOOLS_HELP, [none |-> TRUE], result, out)
    /\ invocation' = [invocation EXCEPT ![c] = NoInvocation]
    /\ UNCHANGED <<sessionStorage, processEnv, req, useResume, cmdArgs, progressSent,
                   context, delivered, unhandledRejections,
                   resetSince, staleHandle, resetCleared, returnedSince>>

HelpExecuteCommandResolved(c, result) ==
    HelpEnd(c, "returned", result, TextResult(OrElse(result.stdout, NoHelpPlaceholder)))

HelpExecuteCommandRejected(c) ==
    HelpEnd(c, "thrown", NoResult,
            toolCatch(TOOLS_HELP, "Failed to execute help command", CommandError))

----------------------------------------------------------------------------
(* The concurrent specification: calls on the shared store, each with the   *)
(* default context (no progress token).                                    *)

NothingEmitted ==
    [call |-> 0, req |-> NoRequest, useResume |-> FALSE, cmdArgs |-> << >>,
     progressSent |-> << >>, invocation |-> NoInvocation,
     context |-> defaultContext, delivered |-> << >>, rejectedArgs |-> NoArgs,
     result |-> NoResult, outcome |-> NoOutcome]

Init ==
    /\ sessionStorage = << >>
    /\ processEnv = [CLAUDE_DEFAULT_MODEL |-> undefined,
                     STRUCTURED_CONTENT_ENABLED |-> undefined]
    /\ pc = [c \in Calls |-> "idle"]
    /\ req = [c \in Calls |-> NoRequest]
    /\ useResume = [c \in Calls |-> FALSE]
    /\ cmdArgs = [c \in Calls |-> << >>]
    /\ progressSent = [c \in Calls |-> << >>]
    /\ invocation = [c \in Calls |-> NoInvocation]
    /\ context = [c \in Calls |-> defaultContext]
    /\ delivered = [c \in Calls |-> << >>]
    /\ unhandledRejections = 0
    /\ emitted = NothingEmitted
    /\ resetSince = {}
    /\ staleHandle = {}
    /\ resetCleared = {}
    /\ returnedSince = [s \in SessionIds |-> Len(getSessionTurns(sessionStorage, s))]

Next ==
    \/ \E c \in Calls, r \in SessionRequests : Begin(c, r)
    \/ \E c \in Calls : SendProgressResolved(c, NoToken)
    \/ \E c \in Calls : SendProgressRejected(c)
    \/ \E c \in Calls, result \in SessionOutputs : ExecuteCommandResolved(c, result)
    \/ \E c \in Calls : ExecuteCommandRejected(c)

Spec == Init /\ [][Next]_vars

----------------------------------------------------------------------------
(* The command-construction specification: one call, of the claude handler *)
(* or of the review handler, with every optional field of the request      *)
(* drawn, on each store a session can be left in and with or without the   *)
(* environment default model.                                              *)

ArgRequests ==
    [prompt : Prompts, sessionId : {undefined, "s1"}, resetSession : BOOLEAN,
     model : {undefined, "claude-opus-4-6"},
     workingDirectory : {undefined, "/repo"},
     allowedTools : {undefined, "Bash,Read,Write"},
     dangerouslySkipPermissions : BOOLEAN,
     outputFormat : {undefined, "text", "json", "stream-json"},
     maxTurns : {0, 5},
     routerBaseUrl : {undefined, "http://router"},
     fallbackProviders : {<< >>}]

\* No session yet; session s1 after one fresh call whose output carried
\* session_id h1; session s1 after one fresh call whose output carried none.
ArgStores ==
    LET one == addTurn(ensureSession(<< >>, "s1"), "s1",
                       [prompt |-> "p1", response |-> "X"])
    IN  {<< >>, setClaudeSessionId(one, "s1", "h1"), one}

ArgEnvs ==
    {[CLAUDE_DEFAULT_MODEL |-> m, STRUCTURED_CONTENT_ENABLED |-> undefined] :
        m \in {undefined, "claude-haiku-4-5-20251001"}}

ArgInit ==
    /\ sessionStorage \in ArgStores
    /\ processEnv \in ArgEnvs
    /\ pc = [c \in Calls |-> "idle"]
    /\ req = [c \in Calls |-> NoRequest]
    /\ useResume = [c \in Calls |-> FALSE]
    /\ cmdArgs = [c \in Calls |-> << >>]
    /\ progressSent = [c \in Calls |-> << >>]
    /\ invocation = [c \in Calls |-> NoInvocation]
    /\ context = [c \in Calls |-> defaultContext]
    /\ delivered = [c \in Calls |-> << >>]
    /\ unhandledRejections = 0
    /\ emitted = NothingEmitted
    /\ resetSince = {}
    /\ staleHandle = {}
    /\ resetCleared = {}
    /\ returnedSince = [s \in SessionIds |-> Len(getSessionTurns(sessionStorage, s))]

ArgNext ==
    \/ \E r \in ArgRequests : Begin(1, r)
    \/ \E progressToken \in ProgressTokens : SendProgressResolved(1, progressToken)
    \/ SendProgressRejected(1)
    \/ \E result \in SessionOutputs : ExecuteCommandResolved(1, result)
    \/ ExecuteCommandRejected(1)
    \/ \E r \in ReviewRequests : ReviewBegin(1, r)
    \/ \E progressToken \in ProgressTokens : ReviewSendProgressResolved(1, progressToken)
    \/ ReviewSendProgressRejected(1)
    \/ \E result \in SessionOutputs : ReviewExecuteCommandResolved(1, result)
    \/ ReviewExecuteCommandRejected(1)

ArgSpec == ArgInit /\ [][ArgNext]_vars

----------------------------------------------------------------------------
(* The output-parsing specification: one call, of the claude handler or of  *)
(* the review handler, whose subprocess resolves with any pair of a stdout  *)
(* (empty, not JSON, or the text of a JSON value) and a stderr.             *)

ParseOutputs ==
    {CommandResult(out, err) :
        out \in {"", "plain", "{\"result\":"} \cup JsonTexts, err \in {"", "err"}}

ParseReviewRequests ==
    [prompt : {undefined, "check"}, uncommitted : {FALSE},
     base : {undefined, "main"}, commit : {undefined},
     title : {undefined}, model : {undefined},
     workingDirectory : {undefined}]

ParseInit ==
    /\ sessionStorage \in ArgStores
    /\ processEnv = [CLAUDE_DEFAULT_MODEL |-> undefined,
                     STRUCTURED_CONTENT_ENABLED |-> undefined]
    /\ pc = [c \in Calls |-> "idle"]
    /\ req = [c \in Calls |-> NoRequest]
    /\ useResume = [c \in Calls |-> FALSE]
    /\ cmdArgs = [c \in Calls |-> << >>]
    /\ progressSent = [c \in Calls |-> << >>]
    /\ invocation = [c \in Calls |-> NoInvocation]
    /\ context = [c \in Calls |-> defaultContext]
    /\ delivered = [c \in Calls |-> << >>]
    /\ unhandledRejections = 0
    /\ emitted = NothingEmitted
    /\ resetSince = {}
    /\ staleHandle = {}
    /\ resetCleared = {}
    /\ returnedSince = [s \in SessionIds |-> Len(getSessionTurns(sessionStorage, s))]

ParseNext ==
    \/ \E r \in SessionRequests : Begin(1, r)
    \/ SendProgressResolved(1, NoToken)
    \/ \E result \in ParseOutputs : ExecuteCommandResolved(1, result)
    \/ ExecuteCommandRejected(1)
    \/ \E r \in ParseReviewRequests : ReviewBegin(1, r)
    \/ ReviewSendProgressResolved(1, NoToken)
    \/ \E result \in ParseOutputs : ReviewExecuteCommandResolved(1, result)
    \/ ReviewExecuteCommandRejected(1)

ParseSpec == ParseInit /\ [][ParseNext]_vars

----------------------------------------------------------------------------
(* One call of the claude or the review handler with every kind of progress *)
(* token, the chunks of a streaming subprocess and the outcomes of the      *)
(* progress sink.                                                           *)

StreamTokens == {NoToken, StringToken("tok1"), NumberToken(0), NumberToken(7)}

StreamRequests == {Request("p1", sid, FALSE) : sid \in {undefined, "s1"}}

StreamOutputs ==
    {CommandResult("", ""),
     CommandResult(JSONstringify(JsonObject("X", "h1")), "")}

StreamInit ==
    /\ sessionStorage \in ArgStores
    /\ processEnv = [CLAUDE_DEFAULT_MODEL |-> undefined,
                     STRUCTURED_CONTENT_ENABLED |-> undefined]
    /\ pc = [c \in Calls |-> "idle"]
    /\ req = [c \in Calls |-> NoRequest]
    /\ useResume = [c \in Calls |-> FALSE]
    /\ cmdArgs = [c \in Calls |-> << >>]
    /\ progressSent = [c \in Calls |-> << >>]
    /\ invocation = [c \in Calls |-> NoInvocation]
    /\ context = [c \in Calls |-> defaultContext]
    /\ delivered = [c \in Calls |-> << >>]
    /\ unhandledRejections = 0
    /\ emitted = NothingEmitted
    /\ resetSince = {}
    /\ staleHandle = {}
    /\ resetCleared = {}
    /\ returnedSince = [s \in SessionIds |-> Len(getSessionTurns(sessionStorage, s))]

StreamNext ==
    \/ \E r \in StreamRequests : Begin(1, r)
    \/ \E progressToken \in StreamTokens : SendProgressResolved(1, progressToken)
    \/ SendProgressRejected(1)
    \/ \E message \in Chunks, sinkRejects \in BOOLEAN :
           OnProgress(1, message, sinkRejects)
    \/ \E result \in StreamOutputs : ExecuteCommandResolved(1, result)
    \/ ExecuteCommandRejected(1)
    \/ \E r \in ParseReviewRequests : ReviewBegin(1, r)
    \/ \E progressToken \in StreamTokens : ReviewSendProgressResolved(1, progressToken)
    \/ ReviewSendProgressRejected(1)
    \/ \E result \in StreamOutputs : ReviewExecuteCommandResolved(1, result)
    \/ ReviewExecuteCommandRejected(1)

StreamSpec == StreamInit /\ [][StreamNext]_vars

----------------------------------------------------------------------------
(* One claude call from the arguments the caller passes, valid or not,     *)
(* with and without fallback providers.                                    *)

RECURSIVE repeat(_, _)
\* String.prototype.repeat
repeat(s, n) ==
    IF n = 0 THEN ""
    ELSE IF n % 2 = 0 THEN LET half == repeat(s, n \div 2) IN half \o half
    ELSE s \o repeat(s, n - 1)

Providers(n) == [i \in 1..n |-> Provider("http://fallback", undefined)]

\* Arguments on both sides of every constraint of the schema, the longest
\* session id allowed included.
ProbeArgs ==
    {Args(p, sid, reset, maxTurns, outputFormat, undefined, Providers(n)) :
        p \in {undefined, "p1"},
        sid \in {undefined, "s1", "", "s 1", repeat("a", MaxSessionIdLength),
                 repeat("a", MaxSessionIdLength + 1)},
        reset \in BOOLEAN,
        maxTurns \in {<< >>, <<0>>, <<-1>>, <<3>>},
        outputFormat \in {undefined, "json", "xml"},
        n \in {0, 1, MaxFallbackProviders, MaxFallbackProviders + 1}}

\* The arguments of the calls: those of ProbeArgs on the sessions of the model.
RawArgs ==
    {args \in ProbeArgs :
        Len(schemaIssues(args)) = 0 => args.sessionId \in SessionIds \cup {undefined}}

RawInit ==
    /\ sessionStorage \in ArgStores
    /\ processEnv = [CLAUDE_DEFAULT_MODEL |-> undefined,
                     STRUCTURED_CONTENT_ENABLED |-> undefined]
    /\ pc = [c \in Calls |-> "idle"]
    /\ req = [c \in Calls |-> NoRequest]
    /\ useResume = [c \in Calls |-> FALSE]
    /\ cmdArgs = [c \in Calls |-> << >>]
    /\ progressSent = [c \in Calls |-> << >>]
    /\ invocation = [c \in Calls |-> NoInvocation]
    /\ context = [c \in Calls |-> defaultContext]
    /\ delivered = [c \in Calls |-> << >>]
    /\ unhandledRejections = 0
    /\ emitted = NothingEmitted
    /\ resetSince = {}
    /\ staleHandle = {}
    /\ resetCleared = {}
    /\ returnedSince = [s \in SessionIds |-> Len(getSessionTurns(sessionStorage, s))]

RawNext ==
    \/ \E args \in RawArgs : Execute(1, args)
    \/ \E progressToken \in ProgressTokens : SendProgressResolved(1, progressToken)
    \/ SendProgressRejected(1)
    \/ \E message \in Chunks : OnProgress(1, message, FALSE)
    \/ \E result \in StreamOutputs : ExecuteCommandResolved(1, result)
    \/ ExecuteCommandRejected(1)

RawSpec == RawInit /\ [][RawNext]_vars

----------------------------------------------------------------------------
(* Two concurrent claude calls, each with its own router URL or none, in   *)
(* buffered and in streaming mode.                                         *)

RouterCalls == {1, 2}

RouterUrls == {"http://router-a", "http://router-b"}

RouterRequests ==
    {[Request("p1", undefined, FALSE) EXCEPT !.routerBaseUrl = url] :
        url \in RouterUrls \cup {undefined}}

RouterInit ==
    /\ sessionStorage = << >>
    /\ processEnv = [CLAUDE_DEFAULT_MODEL |-> undefined,
                     STRUCTURED_CONTENT_ENABLED |-> undefined]
    /\ pc = [c \in Calls |-> "idle"]
    /\ req = [c \in Calls |-> NoRequest]
    /\ useResume = [c \in Calls |-> FALSE]
    /\ cmdArgs = [c \in Calls |-> << >>]
    /\ progressSent = [c \in Calls |-> << >>]
    /\ invocation = [c \in Calls |-> NoInvocation]
    /\ context = [c \in Calls |-> defaultContext]
    /\ delivered = [c \in Calls |-> << >>]
    /\ unhandledRejections = 0
    /\ emitted = NothingEmitted
    /\ resetSince = {}
    /\ staleHandle = {}
    /\ resetCleared = {}
    /\ returnedSince = [s \in SessionIds |-> 0]

RouterNext ==
    \E c \in RouterCalls :
        \/ \E r \in RouterRequests : Begin(c, r)
        \/ \E progressToken \in ProgressTokens : SendProgressResolved(c, progressToken)
        \/ SendProgressRejected(c)
        \/ OnProgress(c, "a", FALSE)
        \/ ExecuteCommandResolved(c, CommandResult("", ""))
        \/ ExecuteCommandRejected(c)

RouterSpec == RouterInit /\ [][RouterNext]_vars

----------------------------------------------------------------------------
(* One claude call under every kind of value of the STRUCTURED_CONTENT_    *)
(* ENABLED toggle.                                                         *)

MetaToggles == {undefined, "", "0", "false", "1", "TRUE", "yes", "On"}

MetaEnvs ==
    {[CLAUDE_DEFAULT_MODEL |-> m, STRUCTURED_CONTENT_ENABLED |-> t] :
        m \in {undefined, "claude-haiku-4-5-20251001"}, t \in MetaToggles}

MetaRequests ==
    {[Request("p1", sid, FALSE) EXCEPT !.model = m] :
        sid \in {undefined, "s1"}, m \in {undefined, "claude-opus-4-6"}}

MetaInit ==
    /\ sessionStorage \in ArgStores
    /\ processEnv \in MetaEnvs
    /\ pc = [c \in Calls |-> "idle"]
    /\ req = [c \in Calls |-> NoRequest]
    /\ useResume = [c \in Calls |-> FALSE]
    /\ cmdArgs = [c \in Calls |-> << >>]
    /\ progressSent = [c \in Calls |-> << >>]
    /\ invocation = [c \in Calls |-> NoInvocation]
    /\ context = [c \in Calls |-> defaultContext]
    /\ delivered = [c \in Calls |-> << >>]
    /\ unhandledRejections = 0
    /\ emitted = NothingEmitted
    /\ resetSince = {}
    /\ staleHandle = {}
    /\ resetCleared = {}
    /\ returnedSince = [s \in SessionIds |-> Len(getSessionTurns(sessionStorage, s))]

MetaNext ==
    \/ \E r \in MetaRequests : Begin(1, r)
    \/ SendProgressResolved(1, NoToken)
    \/ SendProgressRejected(1)
    \/ \E result \in StreamOutputs : ExecuteCommandResolved(1, result)
    \/ ExecuteCommandRejected(1)

MetaSpec == MetaInit /\ [][MetaNext]_vars

----------------------------------------------------------------------------
(* One claude call on a session that holds a history of turns of every     *)
(* kind and no native handle.                                              *)

\* The bound on the turns the session holds before the call.
MaxHistory == 3

\* Turns: a short answer, code marked by "def " and longer than the cap of a
\* code line, prose longer than the cap of a context line, code marked by
\* "function", and a short answer to a long prompt.
TurnPool ==
    {[prompt |-> "q1", response |-> "X"],
     [prompt |-> "q2", response |-> "def " \o repeat("y", 250)],
     [prompt |-> "q3", response |-> repeat("z", 150)],
     [prompt |-> "q4", response |-> "a function"],
     [prompt |-> repeat("q", 500), response |-> "Y"]}

Histories == UNION {[1..n -> TurnPool] : n \in 1..MaxHistory}

ContextStores ==
    {[id \in {"s1"} |-> [turns |-> h, claudeSessionId |-> undefined]] : h \in Histories}

ContextInit ==
    /\ sessionStorage \in ContextStores
    /\ processEnv = [CLAUDE_DEFAULT_MODEL |-> undefined,
                     STRUCTURED_CONTENT_ENABLED |-> undefined]
    /\ pc = [c \in Calls |-> "idle"]
    /\ req = [c \in Calls |-> NoRequest]
    /\ useResume = [c \in Calls |-> FALSE]
    /\ cmdArgs = [c \in Calls |-> << >>]
    /\ progressSent = [c \in Calls |-> << >>]
    /\ invocation = [c \in Calls |-> NoInvocation]
    /\ context = [c \in Calls |-> defaultContext]
    /\ delivered = [c \in Calls |-> << >>]
    /\ unhandledRejections = 0
    /\ emitted = NothingEmitted
    /\ resetSince = {}
    /\ staleHandle = {}
    /\ resetCleared = {}
    /\ returnedSince = [s \in SessionIds |-> Len(getSessionTurns(sessionStorage, s))]

ContextRequests == {Request("p1", "s1", FALSE)}

ContextNext ==
    \/ \E r \in ContextRequests : Begin(1, r)
    \/ SendProgressResolved(1, NoToken)
    \/ SendProgressRejected(1)
    \/ \E result \in StreamOutputs : ExecuteCommandResolved(1, result)
    \/ ExecuteCommandRejected(1)

ContextSpec == ContextInit /\ [][ContextNext]_vars

----------------------------------------------------------------------------
(* Calls of every handler, two at a time, on a store that holds no         *)
(* session, one session or two.                                            *)

ToolCalls == {1, 2}

ToolStores ==
    LET one == addTurn(ensureSession(<< >>, "s1"), "s1",
                       [prompt |-> "p1", response |-> "X"])
        two == addTurn(addTurn(one, "s2", [prompt |-> "p1", response |-> "X"]),
                       "s2", [prompt |-> "p1", response |-> "X"])
    IN  {<< >>, one, two}

PingMessages == {NoMessage, StringMessage(""), StringMessage("hello"), NumberMessage}

ToolsInit ==
    /\ sessionStorage \in ToolStores
    /\ processEnv = [CLAUDE_DEFAULT_MODEL |-> undefined,
                     STRUCTURED_CONTENT_ENABLED |-> undefined]
    /\ pc = [c \in Calls |-> "idle"]
    /\ req = [c \in Calls |-> NoRequest]
    /\ useResume = [c \in Calls |-> FALSE]
    /\ cmdArgs = [c \in Calls |-> << >>]
    /\ progressSent = [c \in Calls |-> << >>]
    /\ invocation = [c \in Calls |-> NoInvocation]
    /\ context = [c \in Calls |-> defaultContext]
    /\ delivered = [c \in Calls |-> << >>]
    /\ unhandledRejections = 0
    /\ emitted = NothingEmitted
    /\ resetSince = {}
    /\ staleHandle = {}
    /\ resetCleared = {}
    /\ returnedSince = [s \in SessionIds |-> Len(getSessionTurns(sessionStorage, s))]

ToolsNext ==
    \E c \in ToolCalls :
        \/ \E message \in PingMessages : Ping(c, PingArgs(message))
        \/ ListSessions(c)
        \/ HelpBegin(c)
        \/ \E result \in StreamOutputs : HelpExecuteCommandResolved(c, result)
        \/ HelpExecuteCommandRejected(c)
        \/ \E reset \in BOOLEAN : Begin(c, Request("p1", "s1", reset))
        \/ SendProgressResolved(c, NoToken)
        \/ SendProgressRejected(c)
        \/ \E result \in StreamOutputs : ExecuteCommandResolved(c, result)
        \/ ExecuteCommandRejected(c)

ToolsSpec == ToolsInit /\ [][ToolsNext]_vars

----------------------------------------------------------------------------
(* Two concurrent calls from raw arguments, valid or not, through every    *)
(* step of the handler.                                                   *)

OrderCalls == {1, 2}

OrderArgs ==
    {Args(p, sid, reset, << >>, undefined, undefined, << >>) :
        p \in {undefined, "p1"}, sid \in {undefined, "s1"}, reset \in BOOLEAN}

OrderNext ==
    \E c \in OrderCalls :
        \/ \E args \in OrderArgs : Execute(c, args)
        \/ SendProgressResolved(c, NoToken)
        \/ SendProgressRejected(c)
        \/ \E result \in StreamOutputs : ExecuteCommandResolved(c, result)
        \/ ExecuteCommandRejected(c)

OrderSpec == RawInit /\ [][OrderNext]_vars

----------------------------------------------------------------------------
(* Concurrent calls on one session id, none of which requests a reset.     *)

SameSessionRequests == {Request(p, "s1", FALSE) : p \in Prompts}

SameSessionNext ==
    \E c \in Calls :
        \/ \E r \in SameSessionRequests : Begin(c, r)
        \/ SendProgressResolved(c, NoToken)
        \/ SendProgressRejected(c)
        \/ \E result \in SessionOutputs : ExecuteCommandResolved(c, result)
        \/ ExecuteCommandRejected(c)

SameSessionSpec == Init /\ [][SameSessionNext]_vars

----------------------------------------------------------------------------
(* Two concurrent calls of any handler, under the assumption that every    *)
(* pending promise settles: the subprocess returns or fails and the        *)
(* progress sink answers.                                                 *)

LiveCalls == {1, 2}

LiveSessionIds == {"s1", "s2"}

LiveArgs ==
    {Args(p, sid, FALSE, << >>, undefined, undefined, << >>) :
        p \in {undefined, "p1"}, sid \in LiveSessionIds \cup {undefined}}

\* The continuation of call c after one of its awaits.
Settles(c) ==
    \/ \E progressToken \in ProgressTokens : SendProgressResolved(c, progressToken)
    \/ SendProgressRejected(c)
    \/ \E result \in StreamOutputs : ExecuteCommandResolved(c, result)
    \/ ExecuteCommandRejected(c)
    \/ \E progressToken \in ProgressTokens : ReviewSendProgressResolved(c, progressToken)
    \/ ReviewSendProgressRejected(c)
    \/ \E result \in StreamOutputs : ReviewExecuteCommandResolved(c, result)
    \/ ReviewExecuteCommandRejected(c)
    \/ \E result \in StreamOutputs : HelpExecuteCommandResolved(c, result)
    \/ HelpExecuteCommandRejected(c)

\* The synchronous block with which a call of a handler starts.
Starts(c) ==
    \/ \E args \in LiveArgs : Execute(c, args)
    \/ \E r \in ParseReviewRequests : ReviewBegin(c, r)
    \/ \E message \in PingMessages : Ping(c, PingArgs(message))
    \/ ListSessions(c)
    \/ HelpBegin(c)

LiveNext ==
    \E c \in LiveCalls :
        \/ Starts(c)
        \/ Settles(c)
        \/ OnProgress(c, "a", FALSE)

LiveInit ==
    /\ sessionStorage = << >>
    /\ processEnv = [CLAUDE_DEFAULT_MODEL |-> undefined,
                     STRUCTURED_CONTENT_ENABLED |-> undefined]
    /\ pc = [c \in Calls |-> "idle"]
    /\ req = [c \in Calls |-> NoRequest]
    /\ useResume = [c \in Calls |-> FALSE]
    /\ cmdArgs = [c \in Calls |-> << >>]
    /\ progressSent = [c \in Calls |-> << >>]
    /\ invocation = [c \in Calls |-> NoInvocation]
    /\ context = [c \in Calls |-> defaultContext]
    /\ delivered = [c \in Calls |-> << >>]
    /\ unhandledRejections = 0
    /\ emitted = NothingEmitted
    /\ resetSince = {}
    /\ staleHandle = {}
    /\ resetCleared = {}
    /\ returnedSince = [s \in LiveSessionIds |-> 0]

LiveSpec ==
    /\ LiveInit
    /\ [][LiveNext]_vars
    /\ \A c \in LiveCalls : WF_vars(Settles(c))

----------------------------------------------------------------------------
(* Properties *)

\* The step in which call c runs the synchronous block before its first await.
Begins(c) == pc[c] = "idle" /\ pc'[c] = "awaitProgress"

\* The step in which call c returns its result; emitted' then holds the
\* output of its subprocess and the result returned.
Returns(c) == pc[c] = "awaitCommand" /\ pc'[c] = "returned"

\* The handle following --resume in an argument list, if any.
ResumeHandleOf(args) ==
    IF \E i \in 1..(Len(args) - 1) : args[i] = "--resume"
    THEN args[(CHOOSE i \in 1..(Len(args) - 1) : args[i] = "--resume") + 1]
    ELSE undefined

Turns(id) == getSessionTurns(sessionStorage, id)

Handle(id) == getClaudeSessionId(sessionStorage, id)

\* C1: a call that supplies a sessionId is built in resume mode, with
\* --resume H, exactly when the session holds the native handle H after the
\* ensure and the reset of that same call; the step applies the ensure and the
\* reset and nothing else to the store.
C1_ResumeIffHandleAfterReset ==
    [][\A c \in Calls :
        (Begins(c) /\ Truthy(req'[c].sessionId)) =>
            LET sid == req'[c].sessionId
                ensured == ensureSession(sessionStorage, sid)
            IN  /\ sid \in DOMAIN sessionStorage'
                /\ sessionStorage' = IF req'[c].resetSession
                                     THEN [ensured EXCEPT ![sid] = EmptySession]
                                     ELSE ensured
                /\ useResume'[c] <=> Truthy(sessionStorage'[sid].claudeSessionId)
                /\ ResumeHandleOf(cmdArgs'[c]) = sessionStorage'[sid].claudeSessionId
    ]_vars

\* A call is in flight in resume mode on the stored handle, and another, with
\* reset requested on the same session, began in fresh mode before the handle
\* was installed again.
C1_Witness ==
    \E c, d \in Calls :
        /\ InFlight(c) /\ InFlight(d) /\ c # d
        /\ req[c].sessionId = "s1" /\ req[d].sessionId = "s1"
        /\ useResume[c] /\ ResumeHandleOf(cmdArgs[c]) = Handle("s1")
        /\ Truthy(Handle("s1"))
        /\ req[d].resetSession /\ ~useResume[d]
        /\ ResumeHandleOf(cmdArgs[d]) = undefined

\* C2: once a reset was applied to a session, no call is issued with --resume
\* on a handle extracted from an invocation that began before that reset.
C2_NoResumeOfStaleHandle ==
    [][\A c \in Calls :
        (Begins(c) /\ useResume'[c]) => req'[c].sessionId \notin staleHandle
    ]_vars

\* C3: resetSession followed by the reads of the same block (getClaudeSessionId,
\* getSession) yields no native handle and zero turns, whatever the session
\* held: the call runs in fresh mode on the caller's own prompt.
C3_ResetThenReadIsEmpty ==
    [][\A c \in Calls :
        (Begins(c) /\ Truthy(req'[c].sessionId) /\ req'[c].resetSession) =>
            LET sid == req'[c].sessionId
            IN  /\ getSessionTurns(sessionStorage', sid) = << >>
                /\ getClaudeSessionId(sessionStorage', sid) = undefined
                /\ ~useResume'[c]
                /\ cmdArgs'[c][2] = req'[c].prompt
                /\ ResumeHandleOf(cmdArgs'[c]) = undefined
    ]_vars

\* A reset call is in flight on a session that held a turn and a handle when it
\* was reset, and the session now reads empty.
C3_Witness ==
    \E c \in Calls :
        /\ InFlight(c) /\ c \in resetCleared
        /\ Turns(req[c].sessionId) = << >>
        /\ Handle(req[c].sessionId) = undefined
        /\ cmdArgs[c][2] = req[c].prompt

\* The output {"result": x, "session_id": y} of the CLI.
ResultAndSession(x, y) == CommandResult(JSONstringify(JsonObject(x, y)), "")

\* The session_id an output carries: that of the JSON object it spells.
CarriedSessionId(result) ==
    IF \E x \in ResultTexts, y \in NativeIds \cup {""} : result = ResultAndSession(x, y)
    THEN CHOOSE y \in NativeIds \cup {""} :
             \E x \in ResultTexts : result = ResultAndSession(x, y)
    ELSE undefined

\* The turn call c records when its result text is `text`.
TurnOf(c, text) == [prompt |-> req[c].prompt, response |-> text]

\* C4 as claimed: a call with resetSession=true on a session holding turns and
\* a native handle is issued in fresh mode on the caller's own prompt, and when
\* it returns with session_id n the stored handle is n and the turns are
\* exactly the one turn of this call.
C4_ResetCallLeavesOnlyItsTurn ==
    [][\A c \in Calls :
        /\ (/\ Begins(c) /\ Truthy(req'[c].sessionId) /\ req'[c].resetSession
            /\ Len(Turns(req'[c].sessionId)) > 0
            /\ Truthy(Handle(req'[c].sessionId)))
           => /\ ~useResume'[c]
              /\ ResumeHandleOf(cmdArgs'[c]) = undefined
              /\ cmdArgs'[c][2] = req'[c].prompt
        /\ \A x \in ResultTexts, n \in NativeIds :
              (/\ Returns(c) /\ c \in resetCleared
               /\ emitted'.result = ResultAndSession(x, n))
              => /\ getClaudeSessionId(sessionStorage', req[c].sessionId) = n
                 /\ getSessionTurns(sessionStorage', req[c].sessionId) = <<TurnOf(c, x)>>
    ]_vars

\* C4 (amended): ... the stored handle is n and the turn of this call is
\* appended to the turns recorded since the reset: it is the only turn when no
\* other call has appended one since.
C4_ResetCallAppendsItsTurn ==
    [][\A c \in Calls :
        /\ (/\ Begins(c) /\ Truthy(req'[c].sessionId) /\ req'[c].resetSession
            /\ Len(Turns(req'[c].sessionId)) > 0
            /\ Truthy(Handle(req'[c].sessionId)))
           => /\ ~useResume'[c]
              /\ ResumeHandleOf(cmdArgs'[c]) = undefined
              /\ cmdArgs'[c][2] = req'[c].prompt
        /\ \A x \in ResultTexts, n \in NativeIds :
              (/\ Returns(c) /\ c \in resetCleared
               /\ emitted'.result = ResultAndSession(x, n))
              => /\ getClaudeSessionId(sessionStorage', req[c].sessionId) = n
                 /\ getSessionTurns(sessionStorage', req[c].sessionId)
                        = Append(Turns(req[c].sessionId), TurnOf(c, x))
                 /\ (Turns(req[c].sessionId) = << >>
                        => getSessionTurns(sessionStorage', req[c].sessionId)
                               = <<TurnOf(c, x)>>)
    ]_vars

\* The call that ended last had reset a session holding turns and handle h1,
\* returned with session_id h2, and the session holds h2 and its one turn.
C4_Witness ==
    /\ emitted.call \in resetCleared
    /\ emitted.outcome.kind = "result"
    /\ emitted.result = ResultAndSession("X", "h2")
    /\ emitted.cmdArgs =
           <<"-p", "p1", "--model", DEFAULT_CLAUDE_MODEL, "--output-format", "json">>
    /\ Handle("s1") = "h2"
    /\ Turns("s1") = <<[prompt |-> "p1", response |-> "X"]>>

\* C5: the native handle of a session is set only by a returning fresh-mode
\* call that extracted a session id, to that id; a returning resume-mode call
\* and a returning call whose output carries no session_id leave it as it was.
C5_HandleWrittenOnlyByFreshCall ==
    [][\A s \in SessionIds :
        LET old == Handle(s)
            new == getClaudeSessionId(sessionStorage', s)
        IN  /\ \A c \in Calls :
                  (Returns(c) /\ req[c].sessionId = s)
                  => new = IF ~useResume[c] /\ Truthy(CarriedSessionId(emitted'.result))
                           THEN CarriedSessionId(emitted'.result) ELSE old
            /\ (new # old /\ new # undefined)
               => \E c \in Calls :
                     /\ Returns(c)
                     /\ req[c].sessionId = s /\ ~useResume[c]
                     /\ new = CarriedSessionId(emitted'.result)
    ]_vars

\* The call that ended last ran in resume mode on h1, its output carried
\* session_id h2, and the session still holds h1.
C5_Witness ==
    /\ emitted.outcome.kind = "result"
    /\ emitted.useResume
    /\ ResumeHandleOf(emitted.cmdArgs) = "h1"
    /\ emitted.result = ResultAndSession("X", "h2")
    /\ Handle(emitted.req.sessionId) = "h1"

\* C6 as claimed: on stdout {"result": x, "session_id": y} the returned text
\* is x and, when a sessionId was supplied, the stored handle is y.
C6_TextAndHandleFromJson ==
    [][\A c \in Calls, x \in ResultTexts, y \in NativeIds :
        (Returns(c) /\ emitted'.result = ResultAndSession(x, y))
        => /\ emitted'.outcome.text = x
           /\ Truthy(req[c].sessionId)
              => getClaudeSessionId(sessionStorage', req[c].sessionId) = y
    ]_vars

\* C6 (amended): ... the returned text is x and, when a sessionId was supplied
\* and the call ran in fresh mode, the stored handle is y; in resume mode the
\* stored handle stays as it was.
C6_TextAndFreshHandleFromJson ==
    [][\A c \in Calls, x \in ResultTexts, y \in NativeIds :
        (Returns(c) /\ emitted'.result = ResultAndSession(x, y))
        => /\ emitted'.outcome.text = x
           /\ (Truthy(req[c].sessionId) /\ ~useResume[c])
              => getClaudeSessionId(sessionStorage', req[c].sessionId) = y
           /\ (Truthy(req[c].sessionId) /\ useResume[c])
              => getClaudeSessionId(sessionStorage', req[c].sessionId)
                     = Handle(req[c].sessionId)
    ]_vars

\* A fresh-mode call on session s1 returned text X from the JSON output and
\* the session holds the session_id h1 of that output.
C6_Witness ==
    /\ emitted.outcome.kind = "result"
    /\ emitted.req.sessionId = "s1"
    /\ ~emitted.useResume
    /\ emitted.result = ResultAndSession("X", "h1")
    /\ emitted.outcome.text = "X"
    /\ Handle("s1") = "h1"

\* C7: every returning call with a session id appends exactly its own turn at
\* the end of the session's turns, and the turns change in no other way except
\* by a reset: reading returns them in append order.
C7_TurnsInAppendOrder ==
    [][\A s \in SessionIds :
        LET new == getSessionTurns(sessionStorage', s)
        IN  /\ \A c \in Calls :
                  (Returns(c) /\ req[c].sessionId = s)
                  => new = Append(Turns(s), TurnOf(c, emitted'.outcome.text))
            /\ new # Turns(s)
               => \/ \E c \in Calls : Returns(c) /\ req[c].sessionId = s
                  \/ \E c \in Calls :
                        /\ Begins(c) /\ req'[c].sessionId = s /\ req'[c].resetSession
                        /\ new = << >>
    ]_vars

\* Every call has returned and none of their turns was removed by a reset:
\* the session reads one turn per call, in the order the calls returned, the
\* last of them in resume mode.
C7_Witness ==
    /\ \A c \in Calls : pc[c] = "returned"
    /\ Len(Turns("s1")) = MaxCalls
    /\ Turns("s1")[1].response = "X"
    /\ Turns("s1")[2].response = "plain"
    /\ emitted.useResume

\* C8: a session holds exactly one turn per call on it that returned since
\* its last reset (since the start when it was never reset), however the calls
\* interleave; a returning call keeps every turn already there and puts its
\* own turn last (completion order).
C8_NoTurnLost ==
    /\ [](\A s \in SessionIds : Len(Turns(s)) = returnedSince[s])
    /\ [][\A c \in Calls :
            (Returns(c) /\ Truthy(req[c].sessionId))
            => LET old == Turns(req[c].sessionId)
                   new == getSessionTurns(sessionStorage', req[c].sessionId)
               IN  /\ Len(new) = Len(old) + 1
                   /\ SubSeq(new, 1, Len(old)) = old
                   /\ new[Len(new)] = TurnOf(c, emitted'.outcome.text)
       ]_vars

\* Call 1 began first, without a reset, and is still awaiting its subprocess
\* while every call begun after it on the same session has returned: the
\* session holds one turn for each of them.
C8_Witness ==
    /\ pc[1] = "awaitCommand" /\ req[1].sessionId = "s1" /\ ~req[1].resetSession
    /\ \A c \in Calls \ {1} : pc[c] = "returned"
    /\ returnedSince["s1"] = MaxCalls - 1
    /\ Len(Turns("s1")) = MaxCalls - 1

\* C9: no step of a call without a sessionId changes the session store: not
\* the block before the first await, not the return, not the failure.
C9_NoSessionIdNoStoreChange ==
    [][\A c \in Calls :
        (\/ Begins(c) /\ req'[c].sessionId = undefined
         \/ InFlight(c) /\ pc'[c] # pc[c] /\ req[c].sessionId = undefined)
        => sessionStorage' = sessionStorage
    ]_vars

\* A call without a sessionId (and with resetSession=true) returned on an
\* output carrying session_id h1; the store holds session s1 only, with the
\* one turn of another call and no handle.
C9_Witness ==
    /\ emitted.outcome.kind = "result"
    /\ emitted.req.sessionId = undefined
    /\ emitted.req.resetSession
    /\ emitted.result = ResultAndSession("X", "h1")
    /\ DOMAIN sessionStorage = {"s1"}
    /\ Len(Turns("s1")) = 1
    /\ Handle("s1") = undefined

\* The request carries none of the optional flags and no output format.
NoOptionalFields(r) ==
    /\ r.workingDirectory = undefined /\ r.allowedTools = undefined
    /\ ~r.dangerouslySkipPermissions /\ r.maxTurns = 0
    /\ r.outputFormat = undefined

\* The text is the task of request r: its prompt, or a synthesized context
\* ending in the blank line and "Task: " followed by its prompt.
IsTaskOf(text, r) ==
    LET suffix == "\n\nTask: " \o r.prompt
    IN  \/ text = r.prompt
        \/ /\ Len(text) > Len(suffix)
           /\ SubSeq(text, Len(text) - Len(suffix) + 1, Len(text)) = suffix

\* C10 as claimed: in fresh mode with no optional fields the argument list is
\* the five elements [task, "--model", M, "--output-format", "json"].
C10_FreshArgsAreFiveElements ==
    \A c \in Calls :
        (InFlight(c) /\ ~useResume[c] /\ NoOptionalFields(req[c]))
        => /\ Len(cmdArgs[c]) = 5
           /\ IsTaskOf(cmdArgs[c][1], req[c])
           /\ SubSeq(cmdArgs[c], 2, 5) =
                  <<"--model", selectedModel(req[c], processEnv), "--output-format", "json">>

\* C10 (amended): ... the argument list is the six elements
\* ["-p", task, "--model", M, "--output-format", "json"]: the print flag comes
\* first and the task text second.
C10_FreshArgsAreSixElements ==
    \A c \in Calls :
        (InFlight(c) /\ ~useResume[c] /\ NoOptionalFields(req[c]))
        => /\ Len(cmdArgs[c]) = 6
           /\ cmdArgs[c][1] = "-p"
           /\ IsTaskOf(cmdArgs[c][2], req[c])
           /\ SubSeq(cmdArgs[c], 3, 6) =
                  <<"--model", selectedModel(req[c], processEnv), "--output-format", "json">>

\* A fresh-mode call without optional fields is in flight on a session that has
\* a turn and no handle: its task is the synthesized prompt, its model the
\* environment default.
C10_Witness ==
    \E c \in Calls :
        /\ InFlight(c) /\ ~useResume[c] /\ NoOptionalFields(req[c])
        /\ req[c].sessionId = "s1" /\ req[c].model = undefined
        /\ cmdArgs[c] = <<"-p", "Context: p1 -> X...\n\nTask: p1",
                          "--model", "claude-haiku-4-5-20251001",
                          "--output-format", "json">>

\* The request carries a prompt and, at most, a session id and a router URL.
OnlyPrompt(r) ==
    /\ NoOptionalFields(r) /\ r.model = undefined /\ ~r.resetSession

\* The model chosen when the request names none.
DefaultModel ==
    IF Truthy(processEnv.CLAUDE_DEFAULT_MODEL) THEN processEnv.CLAUDE_DEFAULT_MODEL
    ELSE "claude-sonnet-4-6"

\* C11: a call with only a prompt, or with a prompt and the id of a session
\* without turns and without native handle, calls the executor on the command
\* "claude" with exactly -p, the prompt, --model M, --output-format json; when
\* no routerBaseUrl is given no environment override is passed, and
\* executeCommand gets two arguments.
C11_PlainCallInvocation ==
    \A c \in Calls :
        (/\ pc[c] = "awaitCommand" /\ OnlyPrompt(req[c])
         /\ Truthy(req[c].sessionId)
            => (Turns(req[c].sessionId) = << >> /\ Handle(req[c].sessionId) = undefined))
        => /\ invocation[c].command = "claude"
           /\ invocation[c].args =
                  <<"-p", req[c].prompt, "--model", DefaultModel, "--output-format", "json">>
           /\ req[c].routerBaseUrl = undefined
              => /\ ~invocation[c].envOverride.defined
                 /\ invocation[c].fn = "executeCommand" => invocation[c].argc = 2

\* A call with a prompt and the id of a new session awaits executeCommand,
\* called with two arguments: "claude" and the six-element list.
C11_Witness ==
    /\ pc[1] = "awaitCommand" /\ OnlyPrompt(req[1])
    /\ req[1].sessionId = "s1" /\ req[1].routerBaseUrl = undefined
    /\ Turns("s1") = << >> /\ Handle("s1") = undefined
    /\ invocation[1] =
           [fn |-> "executeCommand", command |-> "claude",
            args |-> <<"-p", "p1", "--model", "claude-sonnet-4-6",
                       "--output-format", "json">>,
            envOverride |-> NoEnvOverride, argc |-> 2]

\* The model of the precedence rule: the request's, else the environment's,
\* else the hardcoded default.
ModelByPrecedence(r) == IF Truthy(r.model) THEN r.model ELSE DefaultModel

Count(args, flag) == Cardinality({i \in 1..Len(args) : args[i] = flag})

\* The position of the first element of args equal to flag, 0 if there is none.
IndexOf(args, flag) ==
    IF \E i \in 1..Len(args) : args[i] = flag
    THEN CHOOSE i \in 1..Len(args) :
             args[i] = flag /\ \A j \in 1..(i - 1) : args[j] # flag
    ELSE 0

\* Flag a comes before flag b in args whenever both are there.
Before(args, a, b) ==
    (Count(args, a) > 0 /\ Count(args, b) > 0) => IndexOf(args, a) < IndexOf(args, b)

\* C13: in fresh mode the arguments after the output-format flag are, in this
\* order, --max-turns n, --dangerously-skip-permissions, --allowedTools list and
\* --cwd dir: each exactly once when its field was supplied (the bypass flag:
\* when it is true), not at all otherwise, and nothing else.
C13_FreshOptionalFlagsInOrder ==
    \A c \in Calls :
        (InFlight(c) /\ ~useResume[c])
        => LET r == req[c]
               args == cmdArgs[c]
               maxTurnsGiven == r.maxTurns # 0
               toolsGiven == Truthy(r.allowedTools)
               cwdGiven == Truthy(r.workingDirectory)
           IN  /\ args[5] = "--output-format"
               /\ Count(args, "--max-turns") = (IF maxTurnsGiven THEN 1 ELSE 0)
               /\ Count(args, "--dangerously-skip-permissions")
                      = (IF r.dangerouslySkipPermissions THEN 1 ELSE 0)
               /\ Count(args, "--allowedTools") = (IF toolsGiven THEN 1 ELSE 0)
               /\ Count(args, "--cwd") = (IF cwdGiven THEN 1 ELSE 0)
               /\ maxTurnsGiven =>
                      args[IndexOf(args, "--max-turns") + 1] = ToString(r.maxTurns)
               /\ toolsGiven =>
                      args[IndexOf(args, "--allowedTools") + 1] = r.allowedTools
               /\ cwdGiven => args[IndexOf(args, "--cwd") + 1] = r.workingDirectory
               /\ Before(args, "--output-format", "--max-turns")
               /\ Before(args, "--output-format", "--dangerously-skip-permissions")
               /\ Before(args, "--output-format", "--allowedTools")
               /\ Before(args, "--output-format", "--cwd")
               /\ Before(args, "--max-turns", "--dangerously-skip-permissions")
               /\ Before(args, "--max-turns", "--allowedTools")
               /\ Before(args, "--max-turns", "--cwd")
               /\ Before(args, "--dangerously-skip-permissions", "--allowedTools")
               /\ Before(args, "--dangerously-skip-permissions", "--cwd")
               /\ Before(args, "--allowedTools", "--cwd")
               /\ Len(args) = 6 + (IF maxTurnsGiven THEN 2 ELSE 0)
                                + (IF r.dangerouslySkipPermissions THEN 1 ELSE 0)
                                + (IF toolsGiven THEN 2 ELSE 0)
                                + (IF cwdGiven THEN 2 ELSE 0)

\* A fresh call with all four optional fields is in flight.
C13_Witness ==
    /\ InFlight(1) /\ ~useResume[1]
    /\ cmdArgs[1] = <<"-p", "p1", "--model", "claude-sonnet-4-6",
                      "--output-format", "stream-json", "--max-turns", "5",
                      "--dangerously-skip-permissions",
                      "--allowedTools", "Bash,Read,Write", "--cwd", "/repo">>

\* The argument list holds flag followed by value.
HasFlagValue(args, flag, value) ==
    \E i \in 1..(Len(args) - 1) : args[i] = flag /\ args[i + 1] = value

C15_ResumeAppliesToolsAndCwd ==
    \A c \in Calls :
        (pc[c] = "awaitCommand" /\ useResume[c])
        => /\ Truthy(req[c].allowedTools)
              => HasFlagValue(invocation[c].args, "--allowedTools", req[c].allowedTools)
           /\ Truthy(req[c].workingDirectory)
              => HasFlagValue(invocation[c].args, "--cwd", req[c].workingDirectory)

\* C16: in every mode (fresh, resume, review) the argument list names exactly
\* one model after --model: the request's model if given, otherwise the value
\* of CLAUDE_DEFAULT_MODEL if set, otherwise claude-sonnet-4-6; and that is
\* the list the executor is called with.
C16_ModelPrecedence ==
    \A c \in Calls :
        (InFlight(c) \/ ReviewInFlight(c))
        => LET model == IF Truthy(req[c].model) THEN req[c].model
                        ELSE IF Truthy(processEnv.CLAUDE_DEFAULT_MODEL)
                        THEN processEnv.CLAUDE_DEFAULT_MODEL
                        ELSE "claude-sonnet-4-6"
           IN  /\ Count(cmdArgs[c], "--model") = 1
               /\ cmdArgs[c][IndexOf(cmdArgs[c], "--model") + 1] = model
               /\ pc[c] \in {"awaitCommand", "reviewAwaitCommand"}
                  => invocation[c].args = cmdArgs[c]

\* A review awaits the executor, called with the request's model although the
\* environment names another.
C16_Witness ==
    /\ pc[1] = "reviewAwaitCommand"
    /\ processEnv.CLAUDE_DEFAULT_MODEL = "claude-haiku-4-5-20251001"
    /\ req[1].model = "claude-opus-4-6"
    /\ HasFlagValue(invocation[1].args, "--model", "claude-opus-4-6")
    /\ Count(invocation[1].args, "--model") = 1

\* The record is a request of the claude handler.
IsClaudeRequest(r) == "sessionId" \in DOMAIN r

\* C17: when the stdout of the subprocess is not JSON, the text the claude
\* handler returns is the stdout if non-empty, else the stderr if non-empty,
\* else "No output from Claude".
C17_FallbackOrder ==
    [][\A c \in Calls :
        (Returns(c) /\ emitted'.result.stdout \notin JsonTexts)
        => LET stdout == emitted'.result.stdout
               stderr == emitted'.result.stderr
           IN  emitted'.outcome.text =
                   IF stdout # "" THEN stdout
                   ELSE IF stderr # "" THEN stderr
                   ELSE "No output from Claude"
    ]_vars

\* A claude call returned the placeholder on empty stdout and empty stderr.
C17_Witness ==
    /\ emitted.outcome.kind = "result"
    /\ IsClaudeRequest(emitted.req)
    /\ emitted.result = CommandResult("", "")
    /\ emitted.outcome.text = "No output from Claude"

\* The stdout spells no session_id: it is not JSON, or it is the text of a
\* JSON value without that field.
CarriesNoSessionId(stdout) ==
    \/ stdout \notin JsonTexts
    \/ \E v \in JsonValues : stdout = JSONstringify(v) /\ v.session_id = undefined

\* C18: whatever (stdout, stderr) a successful invocation resolves with, the
\* claude and the review handler return a result; when the stdout is the text
\* of a JSON value without a result field (an object lacking it, null, a
\* number, an array), the text returned is the raw stdout; when it spells no
\* session_id, the native handle of the session is left as it was.
C18_ParsingNeverFails ==
    [][\A c \in Calls :
        (/\ pc[c] \in {"awaitCommand", "reviewAwaitCommand"} /\ pc'[c] # pc[c]
         /\ emitted'.result \in ParseOutputs)
        => LET stdout == emitted'.result.stdout
           IN  /\ pc'[c] = "returned"
               /\ emitted'.outcome.kind = "result"
               /\ \A v \in JsonValues :
                     (stdout = JSONstringify(v) /\ v.result = undefined)
                     => emitted'.outcome.text = stdout
               /\ (/\ pc[c] = "awaitCommand" /\ Truthy(req[c].sessionId)
                   /\ CarriesNoSessionId(stdout))
                  => getClaudeSessionId(sessionStorage', req[c].sessionId)
                         = Handle(req[c].sessionId)
    ]_vars

\* A fresh claude call on session s1 returned on the stdout {}: the text is
\* {} and the session has no native handle.
C18_Witness ==
    /\ emitted.outcome.kind = "result"
    /\ IsClaudeRequest(emitted.req)
    /\ emitted.req.sessionId = "s1" /\ ~emitted.useResume
    /\ emitted.result.stdout = "{}"
    /\ emitted.outcome.text = "{}"
    /\ Handle("s1") = undefined
    /\ Len(Turns("s1")) > 0

\* The step in which call c enters the review handler: it ends at once with
\* the validation failure, or runs up to the first await.
ReviewBegins(c) == pc[c] = "idle" /\ pc'[c] \in {"thrown", "reviewAwaitProgress"}

\* C19: a review request with both a (non-empty) prompt and uncommitted=true
\* fails with a ValidationError in the step that enters the handler, with no
\* progress notification issued and no executor call; a request with only one
\* of the two, or neither, issues the first notification and, once that is
\* acknowledged, calls the executor on claude with -p and the review prompt;
\* no later step of a review fails with a ValidationError.
C19_ReviewRejectsPromptWithUncommitted ==
    [][\A c \in Calls :
        /\ (ReviewBegins(c) /\ pc'[c] = "thrown")
           => /\ emitted'.outcome.name = "ValidationError"
              /\ emitted'.outcome.tool = "review"
              /\ emitted'.req.prompt \notin {undefined, ""} /\ emitted'.req.uncommitted
              /\ emitted'.progressSent = << >>
              /\ emitted'.invocation = NoInvocation
              /\ progressSent'[c] = << >> /\ invocation'[c] = NoInvocation
        /\ (ReviewBegins(c) /\ pc'[c] = "reviewAwaitProgress")
           => /\ ~(req'[c].prompt \notin {undefined, ""} /\ req'[c].uncommitted)
              /\ progressSent'[c] = <<Progress("Starting code review...", 0)>>
              /\ invocation'[c] = NoInvocation
              /\ emitted' = emitted
        /\ (pc[c] = "reviewAwaitProgress" /\ pc'[c] = "reviewAwaitCommand")
           => /\ invocation'[c].command = "claude"
              /\ invocation'[c].args[1] = "-p"
              /\ invocation'[c].args[2] = reviewPrompt(req[c])
        /\ (ReviewInFlight(c) /\ pc'[c] = "thrown")
           => emitted'.outcome.name # "ValidationError"
    ]_vars

\* A review with prompt "check" and uncommitted=true ended with the
\* ValidationError; it had issued no notification and called no executor.
C19_Witness ==
    /\ pc[1] = "thrown"
    /\ emitted.outcome.kind = "error"
    /\ emitted.outcome.name = "ValidationError"
    /\ emitted.req.prompt = "check" /\ emitted.req.uncommitted
    /\ emitted.progressSent = << >>
    /\ emitted.invocation = NoInvocation

\* Call c takes a step of the review handler.
ReviewStep(c) == ReviewBegins(c) \/ (ReviewInFlight(c) /\ pc'[c] # pc[c])

\* C20: no step of a review call, whether it ends in a result or in a failure,
\* changes the session store; the argument list of a review holds no --resume
\* and no native handle of the store, and so does the list the executor gets.
C20_ReviewLeavesStore ==
    /\ [][\A c \in Calls : ReviewStep(c) => sessionStorage' = sessionStorage]_vars
    /\ [](\A c \in Calls :
            ReviewInFlight(c)
            => /\ Count(cmdArgs[c], "--resume") = 0
               /\ Count(invocation[c].args, "--resume") = 0
               /\ \A h \in NativeIds : Count(cmdArgs[c], h) = 0)

\* A review returned a result while the store holds session s1 with its turn
\* and its native handle h1.
C20_Witness ==
    /\ pc[1] = "returned"
    /\ emitted.outcome.kind = "result"
    /\ ~IsClaudeRequest(emitted.req)
    /\ emitted.invocation.command = "claude"
    /\ DOMAIN sessionStorage = {"s1"}
    /\ Handle("s1") = "h1"
    /\ Len(Turns("s1")) = 1

\* The handler whose call the emitted record describes.
ToolOf(e) == IF IsClaudeRequest(e.req) THEN TOOLS_CLAUDE ELSE TOOLS_REVIEW

\* C21: every failure of a handler call, the progress sink's included, reaches
\* the caller as a ValidationError or a ToolExecutionError tagged with the
\* handler's tool name, and no rejected promise is left unhandled.
C21_NothingEscapesUnconverted ==
    /\ unhandledRejections = 0
    /\ emitted.outcome.kind = "error"
       => /\ emitted.outcome.name \in {"ValidationError", "ToolExecutionError"}
          /\ emitted.outcome.tool = ToolOf(emitted)

\* C25: the executor called is the streaming one exactly when the context
\* carries a progress token, whatever the token (a string or a number, 0
\* included); otherwise it is the buffered one.
C25_StreamingIffTokenSupplied ==
    \A c \in Calls :
        invocation[c] # NoInvocation
        => /\ invocation[c].fn \in {"executeCommand", "executeCommandStreaming"}
           /\ invocation[c].fn = "executeCommandStreaming"
              <=> context[c].progressToken.kind # "absent"

\* The first notification of a handler in state p.
StartingNotification(p) ==
    IF p \in {"awaitProgress", "awaitCommand"}
    THEN Progress("Starting Claude execution...", 0)
    ELSE Progress("Starting code review...", 0)

\* One notification per output chunk, in arrival order.
ChunkNotifications(chunks) ==
    [i \in 1..Len(chunks) |-> Progress(chunks[i], NoProgress)]

\* C26: a call that has not begun or has ended issues no notification; while a
\* call awaits the acknowledgement of its first notification, that 'Starting'
\* notification with progress 0 is the only one issued and no executor has been
\* called; while it awaits the executor, the notifications issued are the
\* 'Starting' one followed by one per chunk delivered, in arrival order (none in
\* buffered mode); the call that ended issued exactly those; and no step after
\* the end of a call issues a notification for it.
C26_SinkCallsBeforeResult ==
    /\ [](\A c \in Calls :
            /\ pc[c] \in {"idle", "returned", "thrown"}
               => progressSent[c] = << >> /\ delivered[c] = << >>
            /\ pc[c] \in {"awaitProgress", "reviewAwaitProgress"}
               => /\ progressSent[c] = <<StartingNotification(pc[c])>>
                  /\ invocation[c] = NoInvocation
            /\ pc[c] \in {"awaitCommand", "reviewAwaitCommand"}
               => /\ invocation[c] # NoInvocation
                  /\ progressSent[c] = <<StartingNotification(pc[c])>>
                                       \o ChunkNotifications(delivered[c])
                  /\ invocation[c].fn = "executeCommand" => delivered[c] = << >>)
    /\ [](emitted.invocation # NoInvocation
            => /\ Len(emitted.progressSent) = 1 + Len(emitted.delivered)
               /\ emitted.progressSent[1].progress = 0
               /\ SubSeq(emitted.progressSent, 2, Len(emitted.progressSent))
                  = ChunkNotifications(emitted.delivered))
    /\ [][\A c \in Calls :
            /\ pc[c] \in {"returned", "thrown"}
               => pc'[c] = pc[c] /\ progressSent'[c] = progressSent[c]
            /\ (pc[c] \in {"awaitProgress", "reviewAwaitProgress"}
                /\ pc'[c] \in {"awaitCommand", "reviewAwaitCommand"})
               => progressSent'[c] = progressSent[c]
         ]_vars

\* A streaming call returned its result after the chunks "a" and "b": it had
\* issued the 'Starting' notification, then one for "a", then one for "b".
C26_Witness ==
    /\ pc[1] = "returned"
    /\ emitted.outcome.kind = "result"
    /\ emitted.invocation.fn = "executeCommandStreaming"
    /\ emitted.delivered = <<"a", "b">>
    /\ emitted.progressSent = <<Progress("Starting Claude execution...", 0),
                                Progress("a", NoProgress), Progress("b", NoProgress)>>

\* The defects of arguments that C22 lists.
InvalidArgs(args) ==
    \/ args.prompt = undefined
    \/ /\ args.sessionId # undefined
       /\ \/ Len(args.sessionId) > 256
          \/ \E i \in 1..Len(args.sessionId) :
                SubSeq(args.sessionId, i, i) \notin SessionIdChars
    \/ Len(args.maxTurns) > 0 /\ args.maxTurns[1] <= 0
    \/ args.outputFormat \notin {undefined, "text", "json", "stream-json"}
    \/ Len(args.fallbackProviders) > 5

\* Every probe with one of those defects is refused by the schema, and what the
\* catch block throws for the refusal is a ValidationError of the claude tool.
InvalidArgsAreRefused ==
    \A args \in ProbeArgs :
        InvalidArgs(args)
        => /\ ~ClaudeToolSchemaParse(args).ok
           /\ claudeCatch(ClaudeToolSchemaParse(args).error).name = "ValidationError"
           /\ claudeCatch(ClaudeToolSchemaParse(args).error).tool = TOOLS_CLAUDE

\* C22: arguments with a defect of the list are refused by the schema; a claude
\* call refused at its entry ends with a ValidationError of the claude tool
\* that has no cause (it is not wrapped), and the step changes neither the
\* session store nor the notifications issued nor the executor calls; a call
\* that goes on past the schema has a request with none of the defects.
C22_InvalidArgsRejectedWithoutEffect ==
    /\ [](InvalidArgsAreRefused)
    /\ [][\A c \in Calls :
            /\ (pc[c] = "idle" /\ pc'[c] = "thrown"
                /\ emitted'.outcome.tool = TOOLS_CLAUDE)
               => /\ emitted'.outcome.name = "ValidationError"
                  /\ emitted'.outcome.cause = NoCause
                  /\ ~ClaudeToolSchemaParse(emitted'.rejectedArgs).ok
                  /\ sessionStorage' = sessionStorage
                  /\ progressSent' = progressSent /\ emitted'.progressSent = << >>
                  /\ invocation' = invocation /\ emitted'.invocation = NoInvocation
            /\ Begins(c)
               => /\ req'[c].prompt # undefined
                  /\ req'[c].sessionId # undefined
                     => /\ Len(req'[c].sessionId) <= 256
                        /\ \A i \in 1..Len(req'[c].sessionId) :
                              SubSeq(req'[c].sessionId, i, i) \in SessionIdChars
                  /\ req'[c].maxTurns >= 0
                  /\ req'[c].outputFormat \in {undefined, "text", "json", "stream-json"}
                  /\ Len(req'[c].fallbackProviders) <= 5
         ]_vars

\* A call on session s1, which holds turns and a native handle, with
\* resetSession=true and maxTurns 0 ended with a ValidationError; the session
\* still holds its turns and its handle.
C22_Witness ==
    /\ pc[1] = "thrown"
    /\ emitted.outcome.name = "ValidationError"
    /\ emitted.outcome.tool = TOOLS_CLAUDE
    /\ emitted.rejectedArgs.prompt = "p1"
    /\ emitted.rejectedArgs.sessionId = "s1"
    /\ emitted.rejectedArgs.resetSession
    /\ emitted.rejectedArgs.maxTurns = <<0>>
    /\ "s1" \in DOMAIN sessionStorage
    /\ getClaudeSessionId(sessionStorage, "s1") = "h1"
    /\ Len(getSessionTurns(sessionStorage, "s1")) = 1
    /\ emitted.progressSent = << >>
    /\ emitted.invocation = NoInvocation

C24_FallbackProvidersTried ==
    [][\A c \in Calls :
        (pc[c] = "awaitCommand" /\ pc'[c] = "thrown")
        => Len(req[c].fallbackProviders) = 0
    ]_vars

\* C27: the executor call of a claude call in flight carries the override
\* {ANTHROPIC_BASE_URL: U} when its request has routerBaseUrl U and no override
\* when it has none, with the streaming executor as with the buffered one; the
\* step that sets it leaves the executor calls of the other calls as they are;
\* no step changes the process environment.
C27_OverrideIsPerCall ==
    /\ [](\A c \in Calls :
            pc[c] = "awaitCommand"
            => /\ invocation[c].fn \in {"executeCommand", "executeCommandStreaming"}
               /\ invocation[c].envOverride =
                      IF req[c].routerBaseUrl # undefined
                      THEN [defined |-> TRUE, ANTHROPIC_BASE_URL |-> req[c].routerBaseUrl]
                      ELSE [defined |-> FALSE, ANTHROPIC_BASE_URL |-> undefined])
    /\ [][/\ processEnv' = processEnv
          /\ \A c \in Calls :
                invocation'[c] # invocation[c]
                => \A d \in Calls \ {c} : invocation'[d] = invocation[d]
         ]_vars

\* Two calls are in flight at once: call 1, in streaming mode, with router URL
\* http://router-a and that override in its executor call; call 2, in buffered
\* mode, with no router URL and no override.
C27_Witness ==
    /\ pc[1] = "awaitCommand" /\ pc[2] = "awaitCommand"
    /\ req[1].routerBaseUrl = "http://router-a"
    /\ invocation[1].fn = "executeCommandStreaming"
    /\ invocation[1].envOverride.defined
    /\ invocation[1].envOverride.ANTHROPIC_BASE_URL = "http://router-a"
    /\ req[2].routerBaseUrl = undefined
    /\ invocation[2].fn = "executeCommand"
    /\ ~invocation[2].envOverride.defined
    /\ invocation[2].argc = 2
    /\ processEnv = [CLAUDE_DEFAULT_MODEL |-> undefined,
                     STRUCTURED_CONTENT_ENABLED |-> undefined]

\* The toggle is on: the environment variable is 1, true, yes or on, in any
\* case of letters (the values of the model that are).
ToggleOn == processEnv.STRUCTURED_CONTENT_ENABLED \in {"1", "TRUE", "yes", "On"}

\* The record is that of a claude call that returned a result.
ClaudeResult(e) == e.outcome.kind = "result" /\ IsClaudeRequest(e.req)

C29_StructuredContentCarriesCliSession ==
    (/\ ClaudeResult(emitted)
     /\ ToggleOn
     /\ emitted.req.sessionId = undefined
     /\ JSONparse(emitted.result.stdout).ok
     /\ Truthy(JSONparse(emitted.result.stdout).value.session_id))
    => /\ emitted.outcome.structuredContent.defined
       /\ emitted.outcome.structuredContent.value.sessionId
              = JSONparse(emitted.result.stdout).value.session_id

\* Request r, entering with store st, is on a session that after any reset
\* has no native handle and at least one turn.
FreshWithHistory(st, r) ==
    /\ Truthy(r.sessionId)
    /\ ~r.resetSession
    /\ r.sessionId \in DOMAIN st
    /\ ~Truthy(st[r.sessionId].claudeSessionId)
    /\ Len(st[r.sessionId].turns) > 0

\* C30: the argument after -p differs from the prompt of the request exactly
\* when the request names a session that, after any reset, has no native
\* handle and at least one turn; it is then a non-empty context followed by a
\* blank line and "Task: " and the prompt; in every other case (no session,
\* resume mode, a session without turns, a session just reset) it is the
\* prompt.
C30_PromptSynthesizedOnlyFreshWithHistory ==
    [][\A c \in Calls :
        Begins(c)
        => LET r == req'[c]
               sent == cmdArgs'[c][2]
               suffix == "\n\nTask: " \o r.prompt
           IN  /\ cmdArgs'[c][1] = "-p"
               /\ sent # r.prompt <=> FreshWithHistory(sessionStorage, r)
               /\ FreshWithHistory(sessionStorage, r)
                  => /\ ~useResume'[c]
                     /\ Len(sent) > Len(suffix)
                     /\ SubSeq(sent, Len(sent) - Len(suffix) + 1, Len(sent)) = suffix
    ]_vars

\* A call with prompt p1 on session s1, which holds the turn (p1, X) and no
\* native handle, is in flight with the synthesized prompt after -p.
C30_Witness ==
    /\ pc[1] = "awaitProgress"
    /\ req[1].prompt = "p1" /\ req[1].sessionId = "s1" /\ ~req[1].resetSession
    /\ ~useResume[1]
    /\ cmdArgs[1][2] = "Context: p1 -> X...\n\nTask: p1"

\* The first n characters of s, all of s when it has fewer.
FirstChars(s, n) == IF Len(s) > n THEN SubSeq(s, 1, n) ELSE s

\* The line of the synthesized prefix for one turn.
LineOf(turn) ==
    IF includes(turn.response, "function") \/ includes(turn.response, "def ")
    THEN "Previous code context: " \o FirstChars(turn.response, 200) \o "..."
    ELSE "Context: " \o turn.prompt \o " -> " \o FirstChars(turn.response, 100) \o "..."

\* The prefix for a history of n >= 1 turns: the line of the last turn, after
\* the line of the turn before it and a newline when n >= 2.
PrefixOf(turns) ==
    LET n == Len(turns)
    IN  IF n = 1 THEN LineOf(turns[1])
        ELSE LineOf(turns[n - 1]) \o "\n" \o LineOf(turns[n])

\* The number of newlines of s.
Newlines(s) == Cardinality({i \in 1..Len(s) : SubSeq(s, i, i) = "\n"})

\* C31: for a call on a session with n >= 1 turns and no native handle, the
\* prompt sent is the prefix, a blank line, "Task: " and the caller's prompt,
\* where the prefix has min(2, n) lines, those of the last min(2, n) turns in
\* chronological order: 'Previous code context: ' and at most the first 200
\* characters of the response when it contains 'function' or 'def ',
\* otherwise 'Context: prompt -> ' and at most its first 100 characters.
C31_PrefixFromLastTwoTurns ==
    [][\A c \in Calls :
        (Begins(c) /\ FreshWithHistory(sessionStorage, req'[c]))
        => LET turns == sessionStorage[req'[c].sessionId].turns
               sent == cmdArgs'[c][2]
               suffix == "\n\nTask: " \o req'[c].prompt
               prefix == SubSeq(sent, 1, Len(sent) - Len(suffix))
           IN  /\ sent = prefix \o suffix
               /\ prefix = PrefixOf(turns)
               /\ Newlines(prefix) + 1 = Min(2, Len(turns))
    ]_vars

\* A call on a session whose three turns are (q1, X), the long code answer to
\* q2 and the long prose answer to q3 is in flight: its prompt has the code
\* line cut at 200 characters, then the context line of q3 cut at 100, and
\* nothing of the first turn.
C31_Witness ==
    /\ pc[1] = "awaitProgress"
    /\ Len(getSessionTurns(sessionStorage, "s1")) = 3
    /\ getSessionTurns(sessionStorage, "s1")[1].prompt = "q1"
    /\ cmdArgs[1][2] =
           "Previous code context: def " \o repeat("y", 196) \o "...\n"
           \o "Context: q3 -> " \o repeat("z", 100) \o "...\n\nTask: p1"

\* The longest a synthesized prompt is beyond the caller's prompt when the
\* prompts of the turns are left out: two code lines of 23 + 200 + 3
\* characters, the newline between them, and "\n\nTask: ".
ContextBound ==
    2 * (Len("Previous code context: ") + CodeContextCap + Len("..."))
    + Len("\n") + Len("\n\nTask: ")

\* C32: the prompt sent to the CLI is longer than the caller's prompt by at
\* most a fixed number of characters, whatever the turns of the session.
C32_ContextBounded ==
    \A c \in Calls :
        InFlight(c) => Len(cmdArgs[c][2]) - Len(req[c].prompt) <= ContextBound

\* The number of places of s at which sub begins.
Occurrences(s, sub) ==
    Cardinality({i \in 1..(Len(s) - Len(sub) + 1) : SubSeq(s, i, i + Len(sub) - 1) = sub})

\* The entry of the session list for a session with n turns.
EntryOf(id, n) ==
    "{\n    \"id\": \"" \o id \o "\",\n    \"createdAt\": \"" \o Timestamp
    \o "\",\n    \"lastAccessedAt\": \"" \o Timestamp
    \o "\",\n    \"turnCount\": " \o ToString(n) \o "\n  }"

\* Call c runs ping or listSessions, which end in the step they begin.
RunsTool(c, tool) ==
    /\ pc[c] = "idle"
    /\ pc'[c] \in {"returned", "thrown"}
    /\ emitted'.call = c
    /\ "tool" \in DOMAIN emitted'
    /\ emitted'.tool = tool

\* C33: ping and listSessions invoke no subprocess and leave every session's
\* turns and native handle as they were; ping returns the supplied message,
\* or 'pong' when none is supplied; listSessions returns 'No active sessions'
\* on an empty store and otherwise one entry per stored session, whose
\* turnCount is the number of turns of that session.
C33_PingAndListSessionsAreInert ==
    [][\A c \in Calls :
        /\ (RunsTool(c, TOOLS_PING) \/ RunsTool(c, TOOLS_LIST_SESSIONS))
            => /\ sessionStorage' = sessionStorage
               /\ invocation' = invocation
               /\ emitted'.invocation = NoInvocation
        /\ (RunsTool(c, TOOLS_PING) /\ emitted'.req.message.kind = "string")
            => emitted'.outcome = TextResult(emitted'.req.message.text)
        /\ (RunsTool(c, TOOLS_PING) /\ emitted'.req.message.kind = "absent")
            => emitted'.outcome = TextResult("pong")
        /\ (RunsTool(c, TOOLS_LIST_SESSIONS) /\ DOMAIN sessionStorage = {})
            => emitted'.outcome = TextResult("No active sessions")
        /\ (RunsTool(c, TOOLS_LIST_SESSIONS) /\ DOMAIN sessionStorage # {})
            => /\ emitted'.outcome.kind = "result"
               /\ Occurrences(emitted'.outcome.text, "\"id\": ")
                      = Cardinality(DOMAIN sessionStorage)
               /\ \A id \in DOMAIN sessionStorage :
                      Occurrences(emitted'.outcome.text,
                                  EntryOf(id, Len(sessionStorage[id].turns))) = 1]_vars

\* listSessions answered on a store of two sessions, one of which has two
\* turns, while another call waits for its subprocess.
C33_Witness ==
    /\ "tool" \in DOMAIN emitted
    /\ emitted.tool = TOOLS_LIST_SESSIONS
    /\ pc[emitted.call] = "returned"
    /\ DOMAIN sessionStorage = {"s1", "s2"}
    /\ Len(sessionStorage["s2"].turns) = 2
    /\ includes(emitted.outcome.text, "\"turnCount\": 2")
    /\ \E d \in Calls : pc[d] = "awaitCommand"

\* ping answered the message it was given.
C33_PingWitness ==
    /\ "tool" \in DOMAIN emitted
    /\ emitted.tool = TOOLS_PING
    /\ emitted.outcome = TextResult("hello")

\* The steps a call may take, in order: the block up to the first await
\* (validate, ensure and reset the session, build the arguments), the
\* invocation, and the block after it (parse, persist, return); a failure ends
\* the call where it happens.
StepOrder ==
    {<<"idle", "awaitProgress">>, <<"awaitProgress", "awaitCommand">>,
     <<"awaitCommand", "returned">>,
     <<"idle", "thrown">>, <<"awaitProgress", "thrown">>, <<"awaitCommand", "thrown">>}

\* The store holds something a persist step writes that it did not hold
\* before: a further turn, or another native handle that is not empty.
PersistWrite(before, after) ==
    \E id \in DOMAIN after :
        \/ Len(after[id].turns) > Len(getSessionTurns(before, id))
        \/ /\ Truthy(after[id].claudeSessionId)
           /\ after[id].claudeSessionId # getClaudeSessionId(before, id)

\* C34: a call goes through validate, session ensure/reset, build arguments,
\* invoke, parse, persist and emit in that order, each at most once, and stops
\* at the first failure; nothing is persisted before the invocation has
\* returned successfully, and a response is emitted only once its turn is in
\* the store.
C34_StepsInOrder ==
    [][/\ \A c \in Calls :
           /\ pc'[c] # pc[c] => <<pc[c], pc'[c]>> \in StepOrder
           /\ (cmdArgs'[c] # cmdArgs[c] /\ cmdArgs'[c] # << >>) => Begins(c)
           /\ (invocation'[c] # invocation[c] /\ invocation'[c] # NoInvocation)
                  => /\ pc[c] = "awaitProgress" /\ pc'[c] = "awaitCommand"
                     /\ invocation'[c].args = cmdArgs[c]
                     /\ sessionStorage' = sessionStorage
           /\ Begins(c) => ~PersistWrite(sessionStorage, sessionStorage')
           /\ pc'[c] = "thrown" /\ pc[c] # "thrown" => sessionStorage' = sessionStorage
           /\ (Returns(c) /\ Truthy(req[c].sessionId))
                  => /\ emitted'.call = c
                     /\ emitted'.invocation # NoInvocation
                     /\ emitted'.outcome.kind = "result"
                     /\ Len(getSessionTurns(sessionStorage', req[c].sessionId))
                            = Len(Turns(req[c].sessionId)) + 1
       /\ PersistWrite(sessionStorage, sessionStorage')
              => \E c \in Calls : Returns(c) /\ invocation[c] # NoInvocation
    ]_vars

\* A call returned its result after its turn and its handle were stored,
\* while the other call failed validation.
C34_Witness ==
    /\ pc[1] = "thrown"
    /\ pc[2] = "returned"
    /\ emitted.call = 2
    /\ emitted.outcome.kind = "result"
    /\ emitted.req.sessionId = "s1"
    /\ Len(Turns("s1")) = 2
    /\ Handle("s1") = "h1"

\* The step in which call c fails after its session block has run.
FailsInFlight(c) == InFlight(c) /\ pc'[c] = "thrown"

\* C35: a call with a sessionId whose invocation, or whose first notification,
\* fails appends no turn and stores no handle: all it does to the store is to
\* make the session exist and, when resetSession is set, to reset it, and the
\* failure takes neither back.
C35_FailedCallOnlyEnsuresAndResets ==
    [][\A c \in Calls :
        /\ (Begins(c) /\ Truthy(req'[c].sessionId)) =>
               LET sid == req'[c].sessionId
               IN  /\ DOMAIN sessionStorage' = DOMAIN sessionStorage \cup {sid}
                   /\ \A id \in DOMAIN sessionStorage :
                          id # sid => sessionStorage'[id] = sessionStorage[id]
                   /\ sessionStorage'[sid] =
                          IF req'[c].resetSession \/ sid \notin DOMAIN sessionStorage
                          THEN EmptySession ELSE sessionStorage[sid]
        /\ (pc[c] = "awaitProgress" /\ pc'[c] = "awaitCommand")
               => sessionStorage' = sessionStorage
        /\ FailsInFlight(c) =>
               /\ sessionStorage' = sessionStorage
               /\ emitted'.call = c
               /\ emitted'.outcome.name = "ToolExecutionError"
               /\ Truthy(req[c].sessionId) => req[c].sessionId \in DOMAIN sessionStorage'
    ]_vars

\* The only call made so far reset a session that held a turn and a handle,
\* and its invocation failed: the session is left empty.
C35_Witness ==
    /\ pc[1] = "thrown"
    /\ pc[2] = "idle"
    /\ 1 \in resetCleared
    /\ emitted.call = 1
    /\ emitted.invocation # NoInvocation
    /\ emitted.outcome.name = "ToolExecutionError"
    /\ emitted.req.resetSession
    /\ Turns("s1") = << >>
    /\ Handle("s1") = undefined

\* C36: with calls on one session id interleaved in any way and no reset
\* requested, a native handle once stored for the session is never replaced
\* by a different value.
C36_StoredHandleNeverReplaced ==
    [][Truthy(Handle("s1"))
          => getClaudeSessionId(sessionStorage', "s1") = Handle("s1")]_vars

\* The last element of a non-empty sequence.
Last(seq) == seq[Len(seq)]

\* C37: the turn a successful call persists records the prompt the caller
\* gave, not the synthesized prompt sent to the CLI, and as its response the
\* very text the call returns in content[0].text.
C37_TurnRecordsOriginalPromptAndReturnedText ==
    [][\A c \in Calls :
        (Returns(c) /\ Truthy(req[c].sessionId)) =>
            LET after == getSessionTurns(sessionStorage', req[c].sessionId)
            IN  /\ Len(after) = Len(Turns(req[c].sessionId)) + 1
                /\ emitted'.call = c
                /\ emitted'.outcome.kind = "result"
                /\ Last(after).prompt = req[c].prompt
                /\ Last(after).response = emitted'.outcome.text
    ]_vars

\* A call returned whose prompt was sent with a synthesized prefix; the turn
\* it left holds the caller's prompt and the returned text.
C37_Witness ==
    /\ pc[1] = "returned"
    /\ emitted.outcome.kind = "result"
    /\ emitted.req.prompt = "p1"
    /\ includes(emitted.cmdArgs[2], "\n\nTask: p1")
    /\ Last(Turns("s1")).prompt = "p1"
    /\ Last(Turns("s1")).response = "X"
    /\ emitted.outcome.text = "X"

\* The positions at which a call has ended.
Terminal == {"returned", "thrown"}

\* Whatever the other calls are doing, call c can take its next step: start
\* when it has not started, go on when the promise it awaits settles.
CanProceed(c) ==
    /\ (pc[c] = "idle" /\ \A d \in 1..(c - 1) : pc[d] # "idle")
           => /\ \A sid \in LiveSessionIds :
                     ENABLED Execute(c, Args("p1", sid, FALSE, << >>, undefined,
                                             undefined, << >>))
              /\ \A r \in ParseReviewRequests : ENABLED ReviewBegin(c, r)
              /\ \A message \in PingMessages : ENABLED Ping(c, PingArgs(message))
              /\ ENABLED ListSessions(c)
              /\ ENABLED HelpBegin(c)
    /\ pc[c] = "awaitProgress"
           => /\ ENABLED SendProgressResolved(c, NoToken)
              /\ ENABLED SendProgressRejected(c)
    /\ pc[c] = "awaitCommand"
           => /\ \A result \in StreamOutputs : ENABLED ExecuteCommandResolved(c, result)
              /\ ENABLED ExecuteCommandRejected(c)
    /\ pc[c] = "reviewAwaitProgress"
           => /\ ENABLED ReviewSendProgressResolved(c, NoToken)
              /\ ENABLED ReviewSendProgressRejected(c)
    /\ pc[c] = "reviewAwaitCommand"
           => /\ \A result \in StreamOutputs :
                     ENABLED ReviewExecuteCommandResolved(c, result)
              /\ ENABLED ReviewExecuteCommandRejected(c)
    /\ pc[c] = "helpAwaitCommand"
           => /\ \A result \in StreamOutputs : ENABLED HelpExecuteCommandResolved(c, result)
              /\ ENABLED HelpExecuteCommandRejected(c)

\* The step in which call c ends.
Completes(c) == pc[c] \notin Terminal /\ pc'[c] \in Terminal

\* C38: if every invocation returns or fails and the progress sink answers,
\* every call of a handler ends, with one outcome, a result or a
\* ValidationError or ToolExecutionError, and does not end a second time;
\* and no call keeps another, on the same session or not, from going on.
C38_EveryCallEndsOnceAndBlocksNone ==
    /\ \A c \in LiveCalls : (pc[c] # "idle") ~> (pc[c] \in Terminal)
    /\ [][\A c \in LiveCalls :
             /\ pc[c] \in Terminal => pc'[c] = pc[c]
             /\ Completes(c) =>
                    /\ emitted'.call = c
                    /\ \A d \in LiveCalls \ {c} : pc'[d] = pc[d]
                    /\ pc'[c] = "returned" => emitted'.outcome.kind = "result"
                    /\ pc'[c] = "thrown" =>
                           emitted'.outcome.name \in {"ValidationError", "ToolExecutionError"}
             /\ pc[c] \in Terminal => (emitted' # emitted => emitted'.call # c)
          ]_vars
    /\ [](\A c \in LiveCalls : CanProceed(c))

\* A call on session s1 has ended with a result while a second call on the
\* same session, begun before the first ended, still awaits its subprocess.
C38_Witness ==
    /\ pc[1] = "returned"
    /\ pc[2] = "awaitCommand"
    /\ emitted.call = 1
    /\ IsClaudeRequest(emitted.req)
    /\ emitted.req.sessionId = "s1"
    /\ emitted.outcome.kind = "result"
    /\ req[2].sessionId = "s1"
    /\ Len(Turns("s1")) = 1
    /\ ~useResume[2]

====
